---- MODULE Spec2Model ----
(***************************************************************************)
(* The Czech inflection engine of the ISNSS extractor (class Inflection)   *)
(* as a state machine: one Inflection instance, the calls of inflect made  *)
(* on it, and inside a call one step per word of the text (Spec); and the  *)
(* extension around it: the popup, the content script in the tab of a case *)
(* page and the network requests they make (SpecExt).                      *)
(*                                                                         *)
(* A string is a sequence of characters and a character is a one-letter    *)
(* string.  Letters with a diacritic are written in ASCII: the letter and  *)
(* then ' for the acute (a' e' i' o' u' y'), ^ for the caron               *)
(* (c^ d^ e^ n^ r^ s^ t^ z^) and ~ for the ring (u~); the capital letter   *)
(* has the capital base letter (A' C^ U~).  The surname of the spec's      *)
(* scenario is therefore <<"N", "o", "v", "a'", "k">>.                     *)
(***************************************************************************)
EXTENDS Integers, Sequences, FiniteSets, TLC

VARIABLES
  replacements, \* this.replacements, the capture buffer of the instance
  pc,           \* "idle" | "loop" | "done" | "threw": where the call of inflect is
  calls,        \* calls of inflect made on the instance so far
  text,         \* argument text of the call
  animate,      \* argument animate of the call
  words,        \* the words still to be processed by the for loop (reversed order)
  gender,       \* local gender
  inflected,    \* local inflected: the per-word results pushed so far
  result,       \* the value inflect returns
  log,          \* per processed word: what the loop body did with it
  attempts,     \* calls of match made in this call of inflect
  assigned,     \* the fields of the instance written to since its construction
  tab,          \* "blank" | "case": what the browser tab shows
  page,         \* the person rows of the case page in the tab
  clipboardApi, \* navigator.clipboard is there in the page
  popup,        \* "closed" | "open": the popup of the extension
  update,       \* "idle" | "pending" | "available" | "current" | "error": checkForUpdate
  listeners,    \* onMessage listeners the injected content.js registered in the tab
  clicks,       \* extractInfo messages sent to the tab
  inflectText,  \* the global inflectText of the content script
  handlers,     \* the runs of the onMessage listener, one per message and listener
  clipboard,    \* "empty" | "plain" | "inflected": the caption on the clipboard
  requests      \* the network requests made so far

inflectionVars ==
  <<replacements, pc, calls, text, animate, words, gender, inflected, result, log, attempts,
    assigned>>

extensionVars ==
  <<tab, page, clipboardApi, popup, update, listeners, clicks, inflectText, handlers,
    clipboard, requests>>

vars == <<inflectionVars, extensionVars>>

(***************************************************************************)
(* Bounds of the model.                                                    *)
(***************************************************************************)
MaxWords == 2   \* words of a multi-word text
MaxCalls == 2   \* calls of inflect on one instance
MaxMsgs == 1    \* extractInfo messages sent to one case page
MaxOverlap == 2 \* the same where requests overlap (SpecRace)
MaxPersons == 1 \* person rows of a case page

(***************************************************************************)
(* Characters and the string primitives of the language.                   *)
(***************************************************************************)
LowerLetters ==
  <<"a", "b", "c", "d", "e", "f", "g", "h", "i", "j", "k", "l", "m", "n", "o", "p", "q", "r",
   "s", "t", "u", "v", "w", "x", "y", "z", "a'", "e'", "i'", "o'", "u'", "y'", "c^", "d^", "e^",
   "n^", "r^", "s^", "t^", "z^", "u~">>

UpperLetters ==
  <<"A", "B", "C", "D", "E", "F", "G", "H", "I", "J", "K", "L", "M", "N", "O", "P", "Q", "R",
   "S", "T", "U", "V", "W", "X", "Y", "Z", "A'", "E'", "I'", "O'", "U'", "Y'", "C^", "D^", "E^",
   "N^", "R^", "S^", "T^", "Z^", "U~">>

\* String.prototype.toLowerCase / toUpperCase on one character: the case
\* mapping of the letters, any other character is left as it is
LowerOf ==
  [c \in {UpperLetters[i] : i \in 1..Len(UpperLetters)} |->
     LowerLetters[CHOOSE i \in 1..Len(UpperLetters) : UpperLetters[i] = c]]

UpperOf ==
  [c \in {LowerLetters[i] : i \in 1..Len(LowerLetters)} |->
     UpperLetters[CHOOSE i \in 1..Len(LowerLetters) : LowerLetters[i] = c]]

LowerChar(c) == IF c \in DOMAIN LowerOf THEN LowerOf[c] ELSE c

UpperChar(c) == IF c \in DOMAIN UpperOf THEN UpperOf[c] ELSE c

toLowerCase(s) == [i \in 1..Len(s) |-> LowerChar(s[i])]

\* s.slice(from) and s.slice(0, to) with 0-based JavaScript positions
sliceFrom(s, from) == SubSeq(s, from + 1, Len(s))
sliceTo(s, to) == SubSeq(s, 1, to)

\* s.indexOf(c): the 0-based position of the first c, -1 when there is none
indexOf(s, c) ==
  IF \E i \in 1..Len(s) : s[i] = c
  THEN (CHOOSE i \in 1..Len(s) : s[i] = c /\ \A j \in 1..(i - 1) : s[j] # c) - 1
  ELSE -1

\* s.replace(c, by) with a string pattern: only the first occurrence is replaced
replaceFirst(s, c, by) ==
  LET p == indexOf(s, c)
  IN  IF p = -1 THEN s ELSE sliceTo(s, p) \o by \o sliceFrom(s, p + 1)

\* text.split(' '): n separators give n + 1 words, empty ones included
RECURSIVE split(_)
split(s) ==
  LET p == indexOf(s, " ")
  IN  IF p = -1 THEN <<s>> ELSE <<sliceTo(s, p)>> \o split(sliceFrom(s, p + 1))

\* Array.prototype.reverse
\* reverse leaving the array in the order it has
reverseNot(a) == a

reverse(a) == [i \in 1..Len(a) |-> a[Len(a) + 1 - i]]

\* Array.prototype.join(' ') on per-word slot values; an undefined element
\* is joined as the empty string
RECURSIVE join(_)
join(parts) ==
  IF parts = <<>> THEN <<>>
  ELSE LET h == IF parts[1].def THEN parts[1].val ELSE <<>>
       IN  IF Len(parts) = 1 THEN h ELSE h \o <<" ">> \o join(Tail(parts))

\* string.replace(/a|b|.../g, map): scan from the left, replace each two-letter
\* match by its image and go on after it
RECURSIVE replaceDigraphs(_, _)
replaceDigraphs(w, map) ==
  IF Len(w) < 2 THEN w
  ELSE IF \E i \in 1..Len(map) : map[i][1] = <<w[1], w[2]>>
       THEN (map[CHOOSE i \in 1..Len(map) : map[i][1] = <<w[1], w[2]>>][2])
              \o replaceDigraphs(SubSeq(w, 3, Len(w)), map)
       ELSE <<w[1]>> \o replaceDigraphs(Tail(w), map)

(***************************************************************************)
(* class Inflection: the rule tables set by the constructor.               *)
(***************************************************************************)
NumForms == 14

\* pattern[2] .. pattern[14] of a table row, under the indices of the source
Forms(t) == [i \in 2..NumForms |-> t[i - 1]]

patterns ==
  <<
  (* line 689 *)
  [gender |-> "m", suffix |-> TRUE, lit |-> <<>>, rx |-> <<[cs |-> {"k"}, cap |-> FALSE], [cs |-> {"y'"}, cap |-> FALSE]>>,
     forms |-> Forms(<<<<"k", "e'", "h", "o">>, <<"k", "e'", "m", "u">>, <<"k", "y'", "/", "k", "e'", "h", "o">>, <<"k", "y'">>, <<"k", "e'", "m">>, <<"k", "y'", "m">>, <<"k", "e'", "/", "c", "i'">>, <<"k", "y'", "c", "h">>, <<"k", "y'", "m">>, <<"k", "e'">>, <<"k", "e'", "/", "c", "i'">>, <<"k", "y'", "c", "h">>, <<"k", "y'", "m", "i">>>>)],
  (* line 690 *)
  [gender |-> "m", suffix |-> TRUE, lit |-> <<>>, rx |-> <<[cs |-> {"r"}, cap |-> FALSE], [cs |-> {"y'"}, cap |-> FALSE]>>,
     forms |-> Forms(<<<<"r", "e'", "h", "o">>, <<"r", "e'", "m", "u">>, <<"r", "y'", "/", "r", "e'", "h", "o">>, <<"r", "y'">>, <<"r", "e'", "m">>, <<"r", "y'", "m">>, <<"r", "e'", "/", "r^", "i'">>, <<"r", "y'", "c", "h">>, <<"r", "y'", "m">>, <<"r", "e'">>, <<"r", "e'", "/", "r^", "i'">>, <<"r", "y'", "c", "h">>, <<"r", "y'", "m", "i">>>>)],
  (* line 691 *)
  [gender |-> "m", suffix |-> TRUE, lit |-> <<>>, rx |-> <<[cs |-> {"c"}, cap |-> FALSE], [cs |-> {"h"}, cap |-> FALSE], [cs |-> {"y'"}, cap |-> FALSE]>>,
     forms |-> Forms(<<<<"c", "h", "e'", "h", "o">>, <<"c", "h", "e'", "m", "u">>, <<"c", "h", "y'", "/", "c", "h", "e'", "h", "o">>, <<"c", "h", "y'">>, <<"c", "h", "e'", "m">>, <<"c", "h", "y'", "m">>, <<"c", "h", "e'", "/", "s^", "i'">>, <<"c", "h", "y'", "c", "h">>, <<"c", "h", "y'", "m">>, <<"c", "h", "e'">>, <<"c", "h", "e'", "/", "s^", "i'">>, <<"c", "h", "y'", "c", "h">>, <<"c", "h", "y'", "m", "i">>>>)],
  (* line 692 *)
  [gender |-> "m", suffix |-> TRUE, lit |-> <<>>, rx |-> <<[cs |-> {"h"}, cap |-> FALSE], [cs |-> {"y'"}, cap |-> FALSE]>>,
     forms |-> Forms(<<<<"h", "e'", "h", "o">>, <<"h", "e'", "m", "u">>, <<"h", "y'", "/", "h", "e'", "h", "o">>, <<"h", "y'">>, <<"h", "e'", "m">>, <<"h", "y'", "m">>, <<"h", "e'", "/", "z", "i'">>, <<"h", "y'", "c", "h">>, <<"h", "y'", "m">>, <<"h", "e'">>, <<"h", "e'", "/", "z", "i'">>, <<"h", "y'", "c", "h">>, <<"h", "y'", "m", "i">>>>)],
  (* line 693 *)
  [gender |-> "m", suffix |-> TRUE, lit |-> <<>>, rx |-> <<[cs |-> {"y'"}, cap |-> FALSE]>>,
     forms |-> Forms(<<<<"e'", "h", "o">>, <<"e'", "m", "u">>, <<"y'", "/", "e'", "h", "o">>, <<"y'">>, <<"e'", "m">>, <<"y'", "m">>, <<"e'", "/", "i'">>, <<"y'", "c", "h">>, <<"y'", "m">>, <<"e'">>, <<"e'", "/", "i'">>, <<"y'", "c", "h">>, <<"y'", "m", "i">>>>)],
  (* line 694 *)
  [gender |-> "m", suffix |-> TRUE, lit |-> <<>>, rx |-> <<[cs |-> {"a", "e", "e^", "i", "i'"}, cap |-> TRUE], [cs |-> {"c"}, cap |-> FALSE], [cs |-> {"i'"}, cap |-> FALSE]>>,
     forms |-> Forms(<<<<"0", "c", "i'", "h", "o">>, <<"0", "c", "i'", "m", "u">>, <<"0", "c", "i'", "/", "0", "c", "i'", "h", "o">>, <<"0", "c", "i'">>, <<"0", "c", "i'", "m">>, <<"0", "c", "i'", "m">>, <<"0", "c", "i'">>, <<"0", "c", "i'", "c", "h">>, <<"0", "c", "i'", "m">>, <<"0", "c", "i'">>, <<"0", "c", "i'">>, <<"0", "c", "i'", "c", "h">>, <<"0", "c", "i'", "m", "i">>>>)],
  (* line 695 *)
  [gender |-> "f", suffix |-> TRUE, lit |-> <<>>, rx |-> <<[cs |-> {"a", "e", "e^", "i", "i'"}, cap |-> TRUE], [cs |-> {"c"}, cap |-> FALSE], [cs |-> {"i'"}, cap |-> FALSE]>>,
     forms |-> Forms(<<<<"0", "c", "i'">>, <<"0", "c", "i'">>, <<"0", "c", "i'">>, <<"0", "c", "i'">>, <<"0", "c", "i'">>, <<"0", "c", "i'">>, <<"0", "c", "i'">>, <<"0", "c", "i'", "c", "h">>, <<"0", "c", "i'", "m">>, <<"0", "c", "i'">>, <<"0", "c", "i'">>, <<"0", "c", "i'", "c", "h">>, <<"0", "c", "i'", "m", "i">>>>)],
  (* line 696 *)
  [gender |-> "s", suffix |-> TRUE, lit |-> <<>>, rx |-> <<[cs |-> {"a", "e", "e^", "i", "i'"}, cap |-> TRUE], [cs |-> {"c"}, cap |-> FALSE], [cs |-> {"i'"}, cap |-> FALSE]>>,
     forms |-> Forms(<<<<"0", "c", "i'", "h", "o">>, <<"0", "c", "i'", "m", "u">>, <<"0", "c", "i'", "/", "0", "c", "i'", "h", "o">>, <<"0", "c", "i'">>, <<"0", "c", "i'", "m">>, <<"0", "c", "i'", "m">>, <<"0", "c", "i'">>, <<"0", "c", "i'", "c", "h">>, <<"0", "c", "i'", "m">>, <<"0", "c", "i'">>, <<"0", "c", "i'">>, <<"0", "c", "i'", "c", "h">>, <<"0", "c", "i'", "m", "i">>>>)],
  (* line 697 *)
  [gender |-> "m", suffix |-> TRUE, lit |-> <<>>, rx |-> <<[cs |-> {"b", "c", "c^", "d", "h", "k", "l", "m", "n", "p", "r", "s", "s^", "t", "v", "z", "z^"}, cap |-> TRUE], [cs |-> {"n"}, cap |-> FALSE], [cs |-> {"i'"}, cap |-> FALSE]>>,
     forms |-> Forms(<<<<"0", "n", "i'", "h", "o">>, <<"0", "n", "i'", "m", "u">>, <<"0", "n", "i'", "/", "0", "n", "i'", "h", "o">>, <<"0", "n", "i'">>, <<"0", "n", "i'", "m">>, <<"0", "n", "i'", "m">>, <<"0", "n", "i'">>, <<"0", "n", "i'", "c", "h">>, <<"0", "n", "i'", "m">>, <<"0", "n", "i'">>, <<"0", "n", "i'">>, <<"0", "n", "i'", "c", "h">>, <<"0", "n", "i'", "m", "i">>>>)],
  (* line 698 *)
  [gender |-> "f", suffix |-> TRUE, lit |-> <<>>, rx |-> <<[cs |-> {"b", "c", "c^", "d", "h", "k", "l", "m", "n", "p", "r", "s", "s^", "t", "v", "z", "z^"}, cap |-> TRUE], [cs |-> {"n"}, cap |-> FALSE], [cs |-> {"i'"}, cap |-> FALSE]>>,
     forms |-> Forms(<<<<"0", "n", "i'">>, <<"0", "n", "i'">>, <<"0", "n", "i'">>, <<"0", "n", "i'">>, <<"0", "n", "i'">>, <<"0", "n", "i'">>, <<"0", "n", "i'">>, <<"0", "n", "i'", "c", "h">>, <<"0", "n", "i'", "m">>, <<"0", "n", "i'">>, <<"0", "n", "i'">>, <<"0", "n", "i'", "c", "h">>, <<"0", "n", "i'", "m", "i">>>>)],
  (* line 699 *)
  [gender |-> "s", suffix |-> TRUE, lit |-> <<>>, rx |-> <<[cs |-> {"b", "c", "c^", "d", "h", "k", "l", "m", "n", "p", "r", "s", "s^", "t", "v", "z", "z^"}, cap |-> TRUE], [cs |-> {"n"}, cap |-> FALSE], [cs |-> {"i'"}, cap |-> FALSE]>>,
     forms |-> Forms(<<<<"0", "n", "i'", "h", "o">>, <<"0", "n", "i'", "m", "u">>, <<"0", "n", "i'", "/", "0", "n", "i'", "h", "o">>, <<"0", "n", "i'">>, <<"0", "n", "i'", "m">>, <<"0", "n", "i'", "m">>, <<"0", "n", "i'">>, <<"0", "n", "i'", "c", "h">>, <<"0", "n", "i'", "m">>, <<"0", "n", "i'">>, <<"0", "n", "i'">>, <<"0", "n", "i'", "c", "h">>, <<"0", "n", "i'", "m", "i">>>>)],
  (* line 700 *)
  [gender |-> "m", suffix |-> TRUE, lit |-> <<>>, rx |-> <<[cs |-> {"i"}, cap |-> TRUE], [cs |-> {"t"}, cap |-> FALSE], [cs |-> {"e"}, cap |-> FALSE], [cs |-> {"l"}, cap |-> FALSE]>>,
     forms |-> Forms(<<<<"0", "t", "e", "l", "e">>, <<"0", "t", "e", "l", "i">>, <<"0", "t", "e", "l", "e">>, <<"0", "t", "e", "l", "i">>, <<"0", "t", "e", "l", "i">>, <<"0", "t", "e", "l", "e", "m">>, <<"0", "t", "e", "l", "e'">>, <<"0", "t", "e", "l", "u~">>, <<"0", "t", "e", "l", "u~", "m">>, <<"0", "t", "e", "l", "e">>, <<"0", "t", "e", "l", "e'">>, <<"0", "t", "e", "l", "i'", "c", "h">>, <<"0", "t", "e", "l", "i">>>>)],
  (* line 701 *)
  [gender |-> "m", suffix |-> TRUE, lit |-> <<>>, rx |-> <<[cs |-> {"i'"}, cap |-> TRUE], [cs |-> {"t"}, cap |-> FALSE], [cs |-> {"e"}, cap |-> FALSE], [cs |-> {"l"}, cap |-> FALSE]>>,
     forms |-> Forms(<<<<"0", "t", "e", "l", "e">>, <<"0", "t", "e", "l", "i">>, <<"0", "t", "e", "l", "e">>, <<"0", "t", "e", "l", "i">>, <<"0", "t", "e", "l", "i">>, <<"0", "t", "e", "l", "e", "m">>, <<"a'", "t", "e", "l", "e'">>, <<"a'", "t", "e", "l">>, <<"a'", "t", "e", "l", "u~", "m">>, <<"a'", "t", "e", "l", "e">>, <<"a'", "t", "e", "l", "e'">>, <<"a'", "t", "e", "l", "i'", "c", "h">>, <<"a'", "t", "e", "l", "i">>>>)],
  (* line 702 *)
  [gender |-> "m", suffix |-> TRUE, lit |-> <<>>, rx |-> <<[cs |-> {"c"}, cap |-> TRUE], [cs |-> {"e"}, cap |-> FALSE], [cs |-> {"l"}, cap |-> FALSE]>>,
     forms |-> Forms(<<<<"0", "e", "l", "a">>, <<"0", "e", "l", "o", "v", "i">>, <<"0", "e", "l", "a">>, <<"0", "e", "l", "i">>, <<"0", "e", "l", "o", "v", "i">>, <<"0", "e", "l", "e", "m">>, <<"c", "e", "l", "o", "v", "e'">>, <<"c", "e", "l", "u~">>, <<"c", "e", "l", "u~", "m">>, <<"c", "e", "l", "y">>, <<"c", "e", "l", "o", "v", "e'">>, <<"c", "e", "l", "i'", "c", "h">>, <<"c", "e", "l", "y">>>>)],
  (* line 703 *)
  [gender |-> "m", suffix |-> TRUE, lit |-> <<>>, rx |-> <<[cs |-> {"i"}, cap |-> TRUE], [cs |-> {"e"}, cap |-> FALSE], [cs |-> {"l"}, cap |-> FALSE]>>,
     forms |-> Forms(<<<<"0", "e", "l", "a">>, <<"0", "e", "l", "o", "v", "i">>, <<"0", "e", "l", "a">>, <<"0", "e", "l", "i">>, <<"0", "e", "l", "o", "v", "i">>, <<"0", "e", "l", "e", "m">>, <<"i", "e", "l", "o", "v", "e'">>, <<"i", "e", "l", "u~">>, <<"i", "e", "l", "u~", "m">>, <<"i", "e", "l", "y">>, <<"i", "e", "l", "o", "v", "e'">>, <<"i", "e", "l", "i'", "c", "h">>, <<"i", "e", "l", "y">>>>)],
  (* line 704 *)
  [gender |-> "m", suffix |-> TRUE, lit |-> <<>>, rx |-> <<[cs |-> {"o"}, cap |-> TRUE], [cs |-> {"i"}, cap |-> FALSE], [cs |-> {"s"}, cap |-> FALSE]>>,
     forms |-> Forms(<<<<"0", "i", "s", "e">>, <<"0", "i", "s", "o", "v", "i">>, <<"0", "i", "s", "e">>, <<"0", "i", "s", "i">>, <<"0", "i", "s", "o", "v", "i">>, <<"0", "i", "s", "e", "m">>, <<"i", "s", "o", "v", "e'">>, <<"i", "s", "u~">>, <<"i", "s", "u~", "m">>, <<"i", "s", "o", "v", "y">>, <<"i", "s", "o", "v", "e'">>, <<"i", "s", "i'", "c", "h">>, <<"i", "s", "i">>>>)],
  (* line 705 *)
  [gender |-> "m", suffix |-> TRUE, lit |-> <<>>, rx |-> <<[cs |-> {"o"}, cap |-> TRUE], [cs |-> {"d"}, cap |-> FALSE], [cs |-> {"e^"}, cap |-> FALSE], [cs |-> {"k"}, cap |-> FALSE]>>,
     forms |-> Forms(<<<<"0", "d^", "k", "a">>, <<"0", "d^", "k", "o", "v", "i">>, <<"0", "d^", "k", "a">>, <<"0", "d^", "k", "u">>, <<"0", "d^", "k", "o", "v", "i">>, <<"0", "d^", "k", "e", "m">>, <<"d^", "k", "o", "v", "e'">>, <<"d^", "k", "u~">>, <<"d^", "k", "u~", "m">>, <<"d^", "k", "y">>, <<"d^", "k", "o", "v", "e'">>, <<"d^", "c", "i'", "c", "h">>, <<"d^", "k", "y">>>>)],
  (* line 706 *)
  [gender |-> "s", suffix |-> TRUE, lit |-> <<>>, rx |-> <<[cs |-> {"e'"}, cap |-> FALSE]>>,
     forms |-> Forms(<<<<"e'", "h", "o">>, <<"e'", "m", "u">>, <<"e'">>, <<"e'">>, <<"e'", "m">>, <<"y'", "m">>, <<"a'">>, <<"y'", "c", "h">>, <<"y'", "m">>, <<"a'">>, <<"a'">>, <<"y'", "c", "h">>, <<"y'", "m", "i">>>>)],
  (* line 707 *)
  [gender |-> "f", suffix |-> TRUE, lit |-> <<>>, rx |-> <<[cs |-> {"a'"}, cap |-> FALSE]>>,
     forms |-> Forms(<<<<"e'">>, <<"e'">>, <<"o", "u">>, <<"a'">>, <<"e'">>, <<"o", "u">>, <<"e'">>, <<"y'", "c", "h">>, <<"y'", "m">>, <<"e'">>, <<"e'">>, <<"y'", "c", "h">>, <<"y'", "m", "i">>>>)],
  (* line 708 *)
  [gender |-> "-", suffix |-> FALSE, lit |-> <<"j", "a'">>, rx |-> <<>>,
     forms |-> Forms(<<<<"m", "n", "e">>, <<"m", "n", "e^">>, <<"m", "n", "e", "/", "m", "e^">>, <<"j", "a'">>, <<"m", "n", "e^">>, <<"m", "n", "o", "u">>, <<"m", "y">>, <<"n", "a'", "s">>, <<"n", "a'", "m">>, <<"n", "a'", "s">>, <<"m", "y">>, <<"n", "a'", "s">>, <<"n", "a'", "m", "i">>>>)],
  (* line 709 *)
  [gender |-> "-", suffix |-> FALSE, lit |-> <<"t", "y">>, rx |-> <<>>,
     forms |-> Forms(<<<<"t", "e", "b", "e">>, <<"t", "o", "b", "e^">>, <<"t", "e^", "/", "t", "e", "b", "e">>, <<"t", "y">>, <<"t", "o", "b", "e^">>, <<"t", "e", "b", "o", "u">>, <<"v", "y">>, <<"v", "a'", "s">>, <<"v", "a'", "m">>, <<"v", "a'", "s">>, <<"v", "y">>, <<"v", "a'", "s">>, <<"v", "a'", "m", "i">>>>)],
  (* line 710 *)
  [gender |-> "-", suffix |-> FALSE, lit |-> <<"m", "y">>, rx |-> <<>>,
     forms |-> Forms(<<<<>>, <<>>, <<>>, <<>>, <<>>, <<>>, <<"m", "y">>, <<"n", "a'", "s">>, <<"n", "a'", "m">>, <<"n", "a'", "s">>, <<"m", "y">>, <<"n", "a'", "s">>, <<"n", "a'", "m", "i">>>>)],
  (* line 711 *)
  [gender |-> "-", suffix |-> FALSE, lit |-> <<"v", "y">>, rx |-> <<>>,
     forms |-> Forms(<<<<>>, <<>>, <<>>, <<>>, <<>>, <<>>, <<"v", "y">>, <<"v", "a'", "s">>, <<"v", "a'", "m">>, <<"v", "a'", "s">>, <<"v", "y">>, <<"v", "a'", "s">>, <<"v", "a'", "m", "i">>>>)],
  (* line 712 *)
  [gender |-> "m", suffix |-> FALSE, lit |-> <<"o", "n">>, rx |-> <<>>,
     forms |-> Forms(<<<<"n", "e^", "h", "o">>, <<"m", "u", "/", "j", "e", "m", "u", "/", "n", "e^", "m", "u">>, <<"h", "o", "/", "j", "e", "j">>, <<"o", "n">>, <<"n", "e^", "m">>, <<"n", "i'", "m">>, <<"o", "n", "i">>, <<"n", "i", "c", "h">>, <<"n", "i", "m">>, <<"j", "e">>, <<"o", "n", "i">>, <<"n", "i", "c", "h">>, <<"j", "i", "m", "i", "/", "n", "i", "m", "i">>>>)],
  (* line 713 *)
  [gender |-> "m", suffix |-> FALSE, lit |-> <<"o", "n", "i">>, rx |-> <<>>,
     forms |-> Forms(<<<<>>, <<>>, <<>>, <<>>, <<>>, <<>>, <<"o", "n", "i">>, <<"n", "i", "c", "h">>, <<"n", "i", "m">>, <<"j", "e">>, <<"o", "n", "i">>, <<"n", "i", "c", "h">>, <<"j", "i", "m", "i", "/", "n", "i", "m", "i">>>>)],
  (* line 714 *)
  [gender |-> "f", suffix |-> FALSE, lit |-> <<"o", "n", "y">>, rx |-> <<>>,
     forms |-> Forms(<<<<>>, <<>>, <<>>, <<>>, <<>>, <<>>, <<"o", "n", "y">>, <<"n", "i", "c", "h">>, <<"n", "i", "m">>, <<"j", "e">>, <<"o", "n", "y">>, <<"n", "i", "c", "h">>, <<"j", "i", "m", "i", "/", "n", "i", "m", "i">>>>)],
  (* line 715 *)
  [gender |-> "s", suffix |-> FALSE, lit |-> <<"o", "n", "o">>, rx |-> <<>>,
     forms |-> Forms(<<<<"n", "e^", "h", "o">>, <<"m", "u", "/", "j", "e", "m", "u", "/", "n", "e^", "m", "u">>, <<"h", "o", "/", "j", "e", "j">>, <<"o", "n", "o">>, <<"n", "e^", "m">>, <<"n", "i'", "m">>, <<"o", "n", "a">>, <<"n", "i", "c", "h">>, <<"n", "i", "m">>, <<"j", "e">>, <<"o", "n", "y">>, <<"n", "i", "c", "h">>, <<"j", "i", "m", "i", "/", "n", "i", "m", "i">>>>)],
  (* line 716 *)
  [gender |-> "f", suffix |-> FALSE, lit |-> <<"o", "n", "a">>, rx |-> <<>>,
     forms |-> Forms(<<<<"n", "i'">>, <<"n", "i'">>, <<"j", "i">>, <<"o", "n", "a">>, <<"n", "i'">>, <<"n", "i'">>, <<"o", "n", "y">>, <<"n", "i", "c", "h">>, <<"n", "i", "m">>, <<"j", "e">>, <<"o", "n", "y">>, <<"n", "i", "c", "h">>, <<"j", "i", "m", "i", "/", "n", "i", "m", "i">>>>)],
  (* line 717 *)
  [gender |-> "m", suffix |-> FALSE, lit |-> <<"t", "e", "n">>, rx |-> <<>>,
     forms |-> Forms(<<<<"t", "o", "h", "o">>, <<"t", "o", "m", "u">>, <<"t", "o", "h", "o">>, <<"t", "e", "n">>, <<"t", "o", "m">>, <<"t", "i'", "m">>, <<"t", "i">>, <<"t", "e^", "c", "h">>, <<"t", "e^", "m">>, <<"t", "y">>, <<"t", "i">>, <<"t", "e^", "c", "h">>, <<"t", "e^", "m", "i">>>>)],
  (* line 718 *)
  [gender |-> "f", suffix |-> FALSE, lit |-> <<"t", "a">>, rx |-> <<>>,
     forms |-> Forms(<<<<"t", "e'">>, <<"t", "e'">>, <<"t", "u">>, <<"t", "a">>, <<"t", "e'">>, <<"t", "o", "u">>, <<"t", "y">>, <<"t", "e^", "c", "h">>, <<"t", "e^", "m">>, <<"t", "y">>, <<"t", "y">>, <<"t", "e^", "c", "h">>, <<"t", "e^", "m", "i">>>>)],
  (* line 719 *)
  [gender |-> "s", suffix |-> FALSE, lit |-> <<"t", "o">>, rx |-> <<>>,
     forms |-> Forms(<<<<"t", "o", "h", "o">>, <<"t", "o", "m", "u">>, <<"t", "o", "h", "o">>, <<"t", "o">>, <<"t", "o", "m">>, <<"t", "i'", "m">>, <<"t", "a">>, <<"t", "e^", "c", "h">>, <<"t", "e^", "m">>, <<"t", "a">>, <<"t", "a">>, <<"t", "e^", "c", "h">>, <<"t", "e^", "m", "i">>>>)],
  (* line 721 *)
  [gender |-> "m", suffix |-> FALSE, lit |-> <<"m", "u~", "j">>, rx |-> <<>>,
     forms |-> Forms(<<<<"m", "e'", "h", "o">>, <<"m", "e'", "m", "u">>, <<"m", "e'", "h", "o">>, <<"m", "u~", "j">>, <<"m", "e'", "m">>, <<"m", "y'", "m">>, <<"m", "i'">>, <<"m", "y'", "c", "h">>, <<"m", "y'", "m">>, <<"m", "e'">>, <<"m", "i'">>, <<"m", "y'", "c", "h">>, <<"m", "y'", "m", "i">>>>)],
  (* line 722 *)
  [gender |-> "f", suffix |-> FALSE, lit |-> <<"m", "a'">>, rx |-> <<>>,
     forms |-> Forms(<<<<"m", "e'">>, <<"m", "e'">>, <<"m", "o", "u">>, <<"m", "a'">>, <<"m", "e'">>, <<"m", "o", "u">>, <<"m", "e'">>, <<"m", "y'", "c", "h">>, <<"m", "y'", "m">>, <<"m", "e'">>, <<"m", "e'">>, <<"m", "y'", "c", "h">>, <<"m", "y'", "m", "i">>>>)],
  (* line 723 *)
  [gender |-> "f", suffix |-> FALSE, lit |-> <<"m", "o", "j", "e">>, rx |-> <<>>,
     forms |-> Forms(<<<<"m", "e'">>, <<"m", "e'">>, <<"m", "o", "u">>, <<"m", "a'">>, <<"m", "e'">>, <<"m", "o", "u">>, <<"m", "o", "j", "e">>, <<"m", "y'", "c", "h">>, <<"m", "y'", "m">>, <<"m", "e'">>, <<"m", "e'">>, <<"m", "y'", "c", "h">>, <<"m", "y'", "m", "i">>>>)],
  (* line 724 *)
  [gender |-> "s", suffix |-> FALSE, lit |-> <<"m", "e'">>, rx |-> <<>>,
     forms |-> Forms(<<<<"m", "e'", "h", "o">>, <<"m", "e'", "m", "u">>, <<"m", "e'">>, <<"m", "o", "j", "e">>, <<"m", "e'", "m">>, <<"m", "y'", "m">>, <<"m", "e'">>, <<"m", "y'", "c", "h">>, <<"m", "y'", "m">>, <<"m", "a'">>, <<"m", "a'">>, <<"m", "y'", "c", "h">>, <<"m", "y'", "m", "i">>>>)],
  (* line 725 *)
  [gender |-> "s", suffix |-> FALSE, lit |-> <<"m", "o", "j", "e">>, rx |-> <<>>,
     forms |-> Forms(<<<<"m", "e'", "h", "o">>, <<"m", "e'", "m", "u">>, <<"m", "o", "j", "e">>, <<"m", "o", "j", "e">>, <<"m", "e'", "m">>, <<"m", "y'", "m">>, <<"m", "o", "j", "e">>, <<"m", "y'", "c", "h">>, <<"m", "y'", "m">>, <<"m", "a'">>, <<"m", "a'">>, <<"m", "y'", "c", "h">>, <<"m", "y'", "m", "i">>>>)],
  (* line 727 *)
  [gender |-> "m", suffix |-> FALSE, lit |-> <<"t", "v", "u~", "j">>, rx |-> <<>>,
     forms |-> Forms(<<<<"t", "v", "e'", "h", "o">>, <<"t", "v", "e'", "m", "u">>, <<"t", "v", "e'", "h", "o">>, <<"t", "v", "u~", "j">>, <<"t", "v", "e'", "m">>, <<"t", "v", "y'", "m">>, <<"t", "v", "i'">>, <<"t", "v", "y'", "c", "h">>, <<"t", "v", "y'", "m">>, <<"t", "v", "e'">>, <<"t", "v", "i'">>, <<"t", "v", "y'", "c", "h">>, <<"t", "v", "y'", "m", "i">>>>)],
  (* line 728 *)
  [gender |-> "f", suffix |-> FALSE, lit |-> <<"t", "v", "a'">>, rx |-> <<>>,
     forms |-> Forms(<<<<"t", "v", "e'">>, <<"t", "v", "e'">>, <<"t", "v", "o", "u">>, <<"t", "v", "a'">>, <<"t", "v", "e'">>, <<"t", "v", "o", "u">>, <<"t", "v", "e'">>, <<"t", "v", "y'", "c", "h">>, <<"t", "v", "y'", "m">>, <<"t", "v", "e'">>, <<"t", "v", "e'">>, <<"t", "v", "y'", "c", "h">>, <<"t", "v", "y'", "m", "i">>>>)],
  (* line 729 *)
  [gender |-> "f", suffix |-> FALSE, lit |-> <<"t", "v", "o", "j", "e">>, rx |-> <<>>,
     forms |-> Forms(<<<<"t", "v", "e'">>, <<"t", "v", "e'">>, <<"t", "v", "o", "u">>, <<"t", "v", "a'">>, <<"t", "v", "e'">>, <<"t", "v", "o", "u">>, <<"t", "v", "e'">>, <<"t", "v", "y'", "c", "h">>, <<"t", "v", "y'", "m">>, <<"t", "v", "e'">>, <<"t", "v", "e'">>, <<"t", "v", "y'", "c", "h">>, <<"t", "v", "y'", "m", "i">>>>)],
  (* line 730 *)
  [gender |-> "s", suffix |-> FALSE, lit |-> <<"t", "v", "e'">>, rx |-> <<>>,
     forms |-> Forms(<<<<"t", "v", "e'", "h", "o">>, <<"t", "v", "e'", "m", "u">>, <<"t", "v", "e'", "h", "o">>, <<"t", "v", "u~", "j">>, <<"t", "v", "e'", "m">>, <<"t", "v", "y'", "m">>, <<"t", "v", "a'">>, <<"t", "v", "y'", "c", "h">>, <<"t", "v", "y'", "m">>, <<"t", "v", "e'">>, <<"t", "v", "a'">>, <<"t", "v", "y'", "c", "h">>, <<"t", "v", "y'", "m", "i">>>>)],
  (* line 731 *)
  [gender |-> "s", suffix |-> FALSE, lit |-> <<"t", "v", "o", "j", "e">>, rx |-> <<>>,
     forms |-> Forms(<<<<"t", "v", "e'", "h", "o">>, <<"t", "v", "e'", "m", "u">>, <<"t", "v", "e'", "h", "o">>, <<"t", "v", "u~", "j">>, <<"t", "v", "e'", "m">>, <<"t", "v", "y'", "m">>, <<"t", "v", "a'">>, <<"t", "v", "y'", "c", "h">>, <<"t", "v", "y'", "m">>, <<"t", "v", "e'">>, <<"t", "v", "a'">>, <<"t", "v", "y'", "c", "h">>, <<"t", "v", "y'", "m", "i">>>>)],
  (* line 733 *)
  [gender |-> "m", suffix |-> FALSE, lit |-> <<"n", "a'", "s^">>, rx |-> <<>>,
     forms |-> Forms(<<<<"n", "a", "s^", "e", "h", "o">>, <<"n", "a", "s^", "e", "m", "u">>, <<"n", "a", "s^", "e", "h", "o">>, <<"n", "a'", "s^">>, <<"n", "a", "s^", "e", "m">>, <<"n", "a", "s^", "i", "m">>, <<"n", "a", "s^", "i">>, <<"n", "a", "s^", "i", "c", "h">>, <<"n", "a", "s^", "i", "m">>, <<"n", "a", "s^", "e">>, <<"n", "a", "s^", "i">>, <<"n", "a", "s^", "i", "c", "h">>, <<"n", "a", "s^", "i", "m", "i">>>>)],
  (* line 734 *)
  [gender |-> "f", suffix |-> FALSE, lit |-> <<"n", "a", "s^", "e">>, rx |-> <<>>,
     forms |-> Forms(<<<<"n", "a", "s^", "i'">>, <<"n", "a", "s^", "i'">>, <<"n", "a", "s^", "i">>, <<"n", "a", "s^", "e">>, <<"n", "a", "s^", "i'">>, <<"n", "a", "s^", "i'">>, <<"n", "a", "s^", "e">>, <<"n", "a", "s^", "i", "c", "h">>, <<"n", "a", "s^", "i", "m">>, <<"n", "a", "s^", "e">>, <<"n", "a", "s^", "e">>, <<"n", "a", "s^", "i", "c", "h">>, <<"n", "a", "s^", "i", "m", "i">>>>)],
  (* line 735 *)
  [gender |-> "s", suffix |-> FALSE, lit |-> <<"n", "a", "s^", "e">>, rx |-> <<>>,
     forms |-> Forms(<<<<"n", "a", "s^", "e", "h", "o">>, <<"n", "a", "s^", "e", "m", "u">>, <<"n", "a", "s^", "e", "h", "o">>, <<"n", "a", "s^", "e">>, <<"n", "a", "s^", "e", "m">>, <<"n", "a", "s^", "i", "m">>, <<"n", "a", "s^", "e">>, <<"n", "a", "s^", "i", "c", "h">>, <<"n", "a", "s^", "i", "m">>, <<"n", "a", "s^", "e">>, <<"n", "a", "s^", "e">>, <<"n", "a", "s^", "i", "c", "h">>, <<"n", "a", "s^", "i", "m", "i">>>>)],
  (* line 737 *)
  [gender |-> "m", suffix |-> FALSE, lit |-> <<"v", "a'", "s^">>, rx |-> <<>>,
     forms |-> Forms(<<<<"v", "a", "s^", "e", "h", "o">>, <<"v", "a", "s^", "e", "m", "u">>, <<"v", "a", "s^", "e", "h", "o">>, <<"v", "a'", "s^">>, <<"v", "a", "s^", "e", "m">>, <<"v", "a", "s^", "i", "m">>, <<"v", "a", "s^", "i">>, <<"v", "a", "s^", "i", "c", "h">>, <<"v", "a", "s^", "i", "m">>, <<"v", "a", "s^", "e">>, <<"v", "a", "s^", "i">>, <<"v", "a", "s^", "i", "c", "h">>, <<"v", "a", "s^", "i", "m", "i">>>>)],
  (* line 738 *)
  [gender |-> "f", suffix |-> FALSE, lit |-> <<"v", "a", "s^", "e">>, rx |-> <<>>,
     forms |-> Forms(<<<<"v", "a", "s^", "i'">>, <<"v", "a", "s^", "i'">>, <<"v", "a", "s^", "i">>, <<"v", "a", "s^", "e">>, <<"v", "a", "s^", "i'">>, <<"v", "a", "s^", "i'">>, <<"v", "a", "s^", "e">>, <<"v", "a", "s^", "i", "c", "h">>, <<"v", "a", "s^", "i", "m">>, <<"v", "a", "s^", "e">>, <<"v", "a", "s^", "e">>, <<"v", "a", "s^", "i", "c", "h">>, <<"v", "a", "s^", "i", "m", "i">>>>)],
  (* line 739 *)
  [gender |-> "s", suffix |-> FALSE, lit |-> <<"v", "a", "s^", "e">>, rx |-> <<>>,
     forms |-> Forms(<<<<"v", "a", "s^", "e", "h", "o">>, <<"v", "a", "s^", "e", "m", "u">>, <<"v", "a", "s^", "e", "h", "o">>, <<"v", "a", "s^", "e">>, <<"v", "a", "s^", "e", "m">>, <<"v", "a", "s^", "i", "m">>, <<"v", "a", "s^", "e">>, <<"v", "a", "s^", "i", "c", "h">>, <<"v", "a", "s^", "i", "m">>, <<"v", "a", "s^", "e">>, <<"v", "a", "s^", "e">>, <<"v", "a", "s^", "i", "c", "h">>, <<"v", "a", "s^", "i", "m", "i">>>>)],
  (* line 741 *)
  [gender |-> "m", suffix |-> FALSE, lit |-> <<"j", "e", "h", "o">>, rx |-> <<>>,
     forms |-> Forms(<<<<"j", "e", "h", "o">>, <<"j", "e", "h", "o">>, <<"j", "e", "h", "o">>, <<"j", "e", "h", "o">>, <<"j", "e", "h", "o">>, <<"j", "e", "h", "o">>, <<"j", "e", "h", "o">>, <<"j", "e", "h", "o">>, <<"j", "e", "h", "o">>, <<"j", "e", "h", "o">>, <<"j", "e", "h", "o">>, <<"j", "e", "h", "o">>, <<"j", "e", "h", "o">>>>)],
  (* line 742 *)
  [gender |-> "f", suffix |-> FALSE, lit |-> <<"j", "e", "h", "o">>, rx |-> <<>>,
     forms |-> Forms(<<<<"j", "e", "h", "o">>, <<"j", "e", "h", "o">>, <<"j", "e", "h", "o">>, <<"j", "e", "h", "o">>, <<"j", "e", "h", "o">>, <<"j", "e", "h", "o">>, <<"j", "e", "h", "o">>, <<"j", "e", "h", "o">>, <<"j", "e", "h", "o">>, <<"j", "e", "h", "o">>, <<"j", "e", "h", "o">>, <<"j", "e", "h", "o">>, <<"j", "e", "h", "o">>>>)],
  (* line 743 *)
  [gender |-> "s", suffix |-> FALSE, lit |-> <<"j", "e", "h", "o">>, rx |-> <<>>,
     forms |-> Forms(<<<<"j", "e", "h", "o">>, <<"j", "e", "h", "o">>, <<"j", "e", "h", "o">>, <<"j", "e", "h", "o">>, <<"j", "e", "h", "o">>, <<"j", "e", "h", "o">>, <<"j", "e", "h", "o">>, <<"j", "e", "h", "o">>, <<"j", "e", "h", "o">>, <<"j", "e", "h", "o">>, <<"j", "e", "h", "o">>, <<"j", "e", "h", "o">>, <<"j", "e", "h", "o">>>>)],
  (* line 745 *)
  [gender |-> "m", suffix |-> FALSE, lit |-> <<"j", "e", "j", "i'">>, rx |-> <<>>,
     forms |-> Forms(<<<<"j", "e", "j", "i'", "h", "o">>, <<"j", "e", "j", "i'", "m", "u">>, <<"j", "e", "j", "i'", "h", "o">>, <<"j", "e", "j", "i'">>, <<"j", "e", "j", "i'", "m">>, <<"j", "e", "j", "i'", "m">>, <<"j", "e", "j", "i'">>, <<"j", "e", "j", "i'", "c", "h">>, <<"j", "e", "j", "i'", "m">>, <<"j", "e", "j", "i'">>, <<"j", "e", "j", "i'">>, <<"j", "e", "j", "i'", "c", "h">>, <<"j", "e", "j", "i'", "m", "i">>>>)],
  (* line 746 *)
  [gender |-> "s", suffix |-> FALSE, lit |-> <<"j", "e", "j", "i'">>, rx |-> <<>>,
     forms |-> Forms(<<<<"j", "e", "j", "i'", "h", "o">>, <<"j", "e", "j", "i'", "m", "u">>, <<"j", "e", "j", "i'", "h", "o">>, <<"j", "e", "j", "i'">>, <<"j", "e", "j", "i'", "m">>, <<"j", "e", "j", "i'", "m">>, <<"j", "e", "j", "i'">>, <<"j", "e", "j", "i'", "c", "h">>, <<"j", "e", "j", "i'", "m">>, <<"j", "e", "j", "i'">>, <<"j", "e", "j", "i'">>, <<"j", "e", "j", "i'", "c", "h">>, <<"j", "e", "j", "i'", "m", "i">>>>)],
  (* line 747 *)
  [gender |-> "f", suffix |-> FALSE, lit |-> <<"j", "e", "j", "i'">>, rx |-> <<>>,
     forms |-> Forms(<<<<"j", "e", "j", "i'">>, <<"j", "e", "j", "i'">>, <<"j", "e", "j", "i'">>, <<"j", "e", "j", "i'">>, <<"j", "e", "j", "i'">>, <<"j", "e", "j", "i'">>, <<"j", "e", "j", "i'">>, <<"j", "e", "j", "i'", "c", "h">>, <<"j", "e", "j", "i'", "m">>, <<"j", "e", "j", "i'">>, <<"j", "e", "j", "i'">>, <<"j", "e", "j", "i'", "c", "h">>, <<"j", "e", "j", "i'", "m", "i">>>>)],
  (* line 749 *)
  [gender |-> "m", suffix |-> FALSE, lit |-> <<"j", "e", "j", "i", "c", "h">>, rx |-> <<>>,
     forms |-> Forms(<<<<"j", "e", "j", "i", "c", "h">>, <<"j", "e", "j", "i", "c", "h">>, <<"j", "e", "j", "i", "c", "h">>, <<"j", "e", "j", "i", "c", "h">>, <<"j", "e", "j", "i", "c", "h">>, <<"j", "e", "j", "i", "c", "h">>, <<"j", "e", "j", "i", "c", "h">>, <<"j", "e", "j", "i", "c", "h">>, <<"j", "e", "j", "i", "c", "h">>, <<"j", "e", "j", "i", "c", "h">>, <<"j", "e", "j", "i", "c", "h">>, <<"j", "e", "j", "i", "c", "h">>, <<"j", "e", "j", "i", "c", "h">>>>)],
  (* line 750 *)
  [gender |-> "s", suffix |-> FALSE, lit |-> <<"j", "e", "j", "i", "c", "h">>, rx |-> <<>>,
     forms |-> Forms(<<<<"j", "e", "j", "i", "c", "h">>, <<"j", "e", "j", "i", "c", "h">>, <<"j", "e", "j", "i", "c", "h">>, <<"j", "e", "j", "i", "c", "h">>, <<"j", "e", "j", "i", "c", "h">>, <<"j", "e", "j", "i", "c", "h">>, <<"j", "e", "j", "i", "c", "h">>, <<"j", "e", "j", "i", "c", "h">>, <<"j", "e", "j", "i", "c", "h">>, <<"j", "e", "j", "i", "c", "h">>, <<"j", "e", "j", "i", "c", "h">>, <<"j", "e", "j", "i", "c", "h">>, <<"j", "e", "j", "i", "c", "h">>>>)],
  (* line 751 *)
  [gender |-> "f", suffix |-> FALSE, lit |-> <<"j", "e", "j", "i", "c", "h">>, rx |-> <<>>,
     forms |-> Forms(<<<<"j", "e", "j", "i", "c", "h">>, <<"j", "e", "j", "i", "c", "h">>, <<"j", "e", "j", "i", "c", "h">>, <<"j", "e", "j", "i", "c", "h">>, <<"j", "e", "j", "i", "c", "h">>, <<"j", "e", "j", "i", "c", "h">>, <<"j", "e", "j", "i", "c", "h">>, <<"j", "e", "j", "i", "c", "h">>, <<"j", "e", "j", "i", "c", "h">>, <<"j", "e", "j", "i", "c", "h">>, <<"j", "e", "j", "i", "c", "h">>, <<"j", "e", "j", "i", "c", "h">>, <<"j", "e", "j", "i", "c", "h">>>>)],
  (* line 753 *)
  [gender |-> "m", suffix |-> TRUE, lit |-> <<>>, rx |-> <<[cs |-> {"b"}, cap |-> FALSE], [cs |-> {"u~"}, cap |-> FALSE], [cs |-> {"h"}, cap |-> FALSE]>>,
     forms |-> Forms(<<<<"b", "o", "h", "a">>, <<"b", "o", "h", "u">>, <<"b", "o", "h", "a">>, <<"b", "o", "z^", "e">>, <<"b", "o", "h", "o", "v", "i">>, <<"b", "o", "h", "e", "m">>, <<"b", "o", "z", "i", "/", "b", "o", "h", "o", "v", "e'">>, <<"b", "o", "h", "u~">>, <<"b", "o", "h", "u~", "m">>, <<"b", "o", "h", "y">>, <<"b", "o", "z", "i", "/", "b", "o", "h", "o", "v", "e'">>, <<"b", "o", "z", "i'", "c", "h">>, <<"b", "o", "h", "y">>>>)],
  (* line 754 *)
  [gender |-> "m", suffix |-> TRUE, lit |-> <<>>, rx |-> <<[cs |-> {"p"}, cap |-> FALSE], [cs |-> {"a"}, cap |-> FALSE], [cs |-> {"n"}, cap |-> FALSE]>>,
     forms |-> Forms(<<<<"p", "a", "n", "a">>, <<"p", "a", "n", "u">>, <<"p", "a", "n", "a">>, <<"p", "a", "n", "e">>, <<"p", "a", "n", "u">>, <<"p", "a", "n", "e", "m">>, <<"p", "a'", "n", "i", "/", "p", "a'", "n", "o", "v", "e'">>, <<"p", "a'", "n", "u~">>, <<"p", "a'", "n", "u~", "m">>, <<"p", "a'", "n", "y">>, <<"p", "a'", "n", "i", "/", "p", "a'", "n", "o", "v", "e'">>, <<"p", "a'", "n", "e", "c", "h">>, <<"p", "a'", "n", "y">>>>)],
  (* line 755 *)
  [gender |-> "s", suffix |-> FALSE, lit |-> <<"m", "o", "r^", "e">>, rx |-> <<>>,
     forms |-> Forms(<<<<"m", "o", "r^", "e">>, <<"m", "o", "r^", "i">>, <<"m", "o", "r^", "e">>, <<"m", "o", "r^", "e">>, <<"m", "o", "r^", "i">>, <<"m", "o", "r^", "e", "m">>, <<"m", "o", "r^", "e">>, <<"m", "o", "r^", "i'">>, <<"m", "o", "r^", "i'", "m">>, <<"m", "o", "r^", "e">>, <<"m", "o", "r^", "e">>, <<"m", "o", "r^", "i'", "c", "h">>, <<"m", "o", "r^", "i">>>>)],
  (* line 756 *)
  [gender |-> "-", suffix |-> FALSE, lit |-> <<"d", "v", "e", "r^", "e">>, rx |-> <<>>,
     forms |-> Forms(<<<<>>, <<>>, <<>>, <<>>, <<>>, <<>>, <<"d", "v", "e", "r^", "e">>, <<"d", "v", "e", "r^", "i'">>, <<"d", "v", "e", "r^", "i'", "m">>, <<"d", "v", "e", "r^", "e">>, <<"d", "v", "e", "r^", "e">>, <<"d", "v", "e", "r^", "i'", "c", "h">>, <<"d", "v", "e", "r^", "m", "i">>>>)],
  (* line 757 *)
  [gender |-> "-", suffix |-> FALSE, lit |-> <<"h", "o", "u", "s", "l", "e">>, rx |-> <<>>,
     forms |-> Forms(<<<<>>, <<>>, <<>>, <<>>, <<>>, <<>>, <<"h", "o", "u", "s", "l", "e">>, <<"h", "o", "u", "s", "l", "i'">>, <<"h", "o", "u", "s", "l", "i'", "m">>, <<"h", "o", "u", "s", "l", "e">>, <<"h", "o", "u", "s", "l", "e">>, <<"h", "o", "u", "s", "l", "i'", "c", "h">>, <<"h", "o", "u", "s", "l", "e", "m", "i">>>>)],
  (* line 758 *)
  [gender |-> "-", suffix |-> FALSE, lit |-> <<"s^", "l", "e">>, rx |-> <<>>,
     forms |-> Forms(<<<<>>, <<>>, <<>>, <<>>, <<>>, <<>>, <<"s^", "l", "e">>, <<"s^", "l", "i'">>, <<"s^", "l", "i'", "m">>, <<"s^", "l", "e">>, <<"s^", "l", "e">>, <<"s^", "l", "i'", "c", "h">>, <<"s^", "l", "e", "m", "i">>>>)],
  (* line 759 *)
  [gender |-> "-", suffix |-> FALSE, lit |-> <<"m", "u", "k", "a">>, rx |-> <<>>,
     forms |-> Forms(<<<<>>, <<>>, <<>>, <<>>, <<>>, <<>>, <<"m", "u", "k", "a">>, <<"m", "u", "k">>, <<"m", "u", "k", "a'", "m">>, <<"m", "u", "k", "a">>, <<"m", "u", "k", "a">>, <<"m", "u", "k", "a'", "c", "h">>, <<"m", "u", "k", "a", "m", "i">>>>)],
  (* line 760 *)
  [gender |-> "s", suffix |-> FALSE, lit |-> <<"o", "v", "o", "c", "e">>, rx |-> <<>>,
     forms |-> Forms(<<<<"o", "v", "o", "c", "e">>, <<"o", "v", "o", "c", "i">>, <<"o", "v", "o", "c", "e">>, <<"o", "v", "o", "c", "e">>, <<"o", "v", "o", "c", "i">>, <<"o", "v", "o", "c", "e", "m">>, <<>>, <<>>, <<>>, <<>>, <<>>, <<>>, <<>>>>)],
  (* line 761 *)
  [gender |-> "m", suffix |-> FALSE, lit |-> <<"h", "u", "m", "u", "s">>, rx |-> <<>>,
     forms |-> Forms(<<<<"h", "u", "m", "u", "s", "u">>, <<"h", "u", "m", "u", "s", "u">>, <<"h", "u", "m", "u", "s">>, <<"h", "u", "m", "u", "s", "e">>, <<"h", "u", "m", "u", "s", "u">>, <<"h", "u", "m", "u", "s", "e", "m">>, <<"h", "u", "m", "u", "s", "y">>, <<"h", "u", "m", "u", "s", "u~">>, <<"h", "u", "m", "u", "s", "u~", "m">>, <<"h", "u", "m", "u", "s", "y">>, <<"h", "u", "m", "u", "s", "y">>, <<"h", "u", "m", "u", "s", "e", "c", "h">>, <<"h", "u", "m", "u", "s", "y">>>>)],
  (* line 762 *)
  [gender |-> "m", suffix |-> TRUE, lit |-> <<>>, rx |-> <<[cs |-> {"v"}, cap |-> FALSE], [cs |-> {"z"}, cap |-> FALSE], [cs |-> {"t"}, cap |-> FALSE], [cs |-> {"e"}, cap |-> FALSE], [cs |-> {"k"}, cap |-> FALSE]>>,
     forms |-> Forms(<<<<"v", "z", "t", "e", "k", "u">>, <<"v", "z", "t", "e", "k", "u">>, <<"v", "z", "t", "e", "k">>, <<"v", "z", "t", "e", "k", "u">>, <<"v", "z", "t", "e", "k", "u">>, <<"v", "z", "t", "e", "k", "e", "m">>, <<"v", "z", "t", "e", "k", "y">>, <<"v", "z", "t", "e", "k", "u~">>, <<"v", "z", "t", "e", "k", "u~", "m">>, <<"v", "z", "t", "e", "k", "y">>, <<"v", "z", "t", "e", "k", "y">>, <<"v", "z", "t", "e", "c", "i'", "c", "h">>, <<"v", "z", "t", "e", "k", "y">>>>)],
  (* line 763 *)
  [gender |-> "m", suffix |-> TRUE, lit |-> <<>>, rx |-> <<[cs |-> {"d"}, cap |-> FALSE], [cs |-> {"o"}, cap |-> FALSE], [cs |-> {"t"}, cap |-> FALSE], [cs |-> {"e"}, cap |-> FALSE], [cs |-> {"k"}, cap |-> FALSE]>>,
     forms |-> Forms(<<<<"d", "o", "t", "e", "k", "u">>, <<"d", "o", "t", "e", "k", "u">>, <<"d", "o", "t", "e", "k">>, <<"d", "o", "t", "e", "k", "u">>, <<"d", "o", "t", "e", "k", "u">>, <<"d", "o", "t", "e", "k", "e", "m">>, <<"d", "o", "t", "e", "k", "y">>, <<"d", "o", "t", "e", "k", "u~">>, <<"d", "o", "t", "e", "k", "u~", "m">>, <<"d", "o", "t", "e", "k", "y">>, <<"d", "o", "t", "e", "k", "y">>, <<"d", "o", "t", "e", "c", "i'", "c", "h">>, <<"d", "o", "t", "e", "k", "y">>>>)],
  (* line 764 *)
  [gender |-> "f", suffix |-> TRUE, lit |-> <<>>, rx |-> <<[cs |-> {"h"}, cap |-> FALSE], [cs |-> {"r"}, cap |-> FALSE], [cs |-> {"a"}, cap |-> FALSE]>>,
     forms |-> Forms(<<<<"h", "r", "y">>, <<"h", "r^", "e">>, <<"h", "r", "u">>, <<"h", "r", "o">>, <<"h", "r^", "e">>, <<"h", "r", "o", "u">>, <<"h", "r", "y">>, <<"h", "e", "r">>, <<"h", "r", "a'", "m">>, <<"h", "r", "y">>, <<"h", "r", "y">>, <<"h", "r", "a'", "c", "h">>, <<"h", "r", "a", "m", "i">>>>)],
  (* line 765 *)
  [gender |-> "m", suffix |-> FALSE, lit |-> <<"z", "e", "u", "s">>, rx |-> <<>>,
     forms |-> Forms(<<<<"d", "i", "a">>, <<"d", "i", "o", "v", "i">>, <<"d", "i", "a">>, <<"d", "i", "e">>, <<"d", "i", "o", "v", "i">>, <<"d", "i", "e", "m">>, <<"d", "i", "o", "v", "e'">>, <<"d", "i", "u~">>, <<"d", "i", "u~", "m">>, <<>>, <<"d", "i", "o", "v", "e'">>, <<>>, <<>>>>)],
  (* line 766 *)
  [gender |-> "f", suffix |-> FALSE, lit |-> <<"n", "i", "k", "o", "l">>, rx |-> <<>>,
     forms |-> Forms(<<<<"n", "i", "k", "o", "l">>, <<"n", "i", "k", "o", "l">>, <<"n", "i", "k", "o", "l">>, <<"n", "i", "k", "o", "l">>, <<"n", "i", "k", "o", "l">>, <<"n", "i", "k", "o", "l">>, <<"n", "i", "k", "o", "l">>, <<"n", "i", "k", "o", "l">>, <<"n", "i", "k", "o", "l">>, <<"n", "i", "k", "o", "l">>, <<"n", "i", "k", "o", "l">>, <<"n", "i", "k", "o", "l">>, <<"n", "i", "k", "o", "l">>>>)],
  (* line 768 *)
  [gender |-> "-", suffix |-> TRUE, lit |-> <<>>, rx |-> <<[cs |-> {"t"}, cap |-> FALSE], [cs |-> {"d"}, cap |-> FALSE], [cs |-> {"v"}, cap |-> FALSE], [cs |-> {"a"}, cap |-> FALSE]>>,
     forms |-> Forms(<<<<"t", "i", "d", "v", "o", "u">>, <<"t", "i", "d", "v", "o", "u", "m">>, <<"t", "d", "v", "a">>, <<"t", "d", "v", "a">>, <<"t", "i", "d", "v", "o", "u">>, <<"t", "i", "d", "v", "e^", "m", "i">>, <<>>, <<>>, <<>>, <<>>, <<>>, <<>>, <<>>>>)],
  (* line 769 *)
  [gender |-> "-", suffix |-> TRUE, lit |-> <<>>, rx |-> <<[cs |-> {"t"}, cap |-> FALSE], [cs |-> {"d"}, cap |-> FALSE], [cs |-> {"v"}, cap |-> FALSE], [cs |-> {"e^"}, cap |-> FALSE]>>,
     forms |-> Forms(<<<<"t", "i", "d", "v", "o", "u">>, <<"t", "i", "d", "v", "e^", "m", "a">>, <<"t", "d", "v", "a">>, <<"t", "d", "v", "a">>, <<"t", "i", "d", "v", "o", "u">>, <<"t", "i", "d", "v", "e^", "m", "i">>, <<>>, <<>>, <<>>, <<>>, <<>>, <<>>, <<>>>>)],
  (* line 770 *)
  [gender |-> "-", suffix |-> TRUE, lit |-> <<>>, rx |-> <<[cs |-> {"t"}, cap |-> FALSE], [cs |-> {"t"}, cap |-> FALSE], [cs |-> {"r^"}, cap |-> FALSE], [cs |-> {"i"}, cap |-> FALSE]>>,
     forms |-> Forms(<<<<"t", "i", "t", "r^", "i'">>, <<"t", "i", "t", "r^", "e", "m">>, <<"t", "t", "r^", "i">>, <<"t", "t", "r^", "i">>, <<"t", "i", "t", "r^", "e", "c", "h">>, <<"t", "i", "t", "r^", "e", "m", "i">>, <<>>, <<>>, <<>>, <<>>, <<>>, <<>>, <<>>>>)],
  (* line 771 *)
  [gender |-> "-", suffix |-> TRUE, lit |-> <<>>, rx |-> <<[cs |-> {"t"}, cap |-> FALSE], [cs |-> {"c^"}, cap |-> FALSE], [cs |-> {"t"}, cap |-> FALSE], [cs |-> {"y"}, cap |-> FALSE], [cs |-> {"r^"}, cap |-> FALSE], [cs |-> {"i"}, cap |-> FALSE]>>,
     forms |-> Forms(<<<<"t", "i", "c^", "t", "y", "r^", "e", "c", "h">>, <<"t", "i", "c^", "t", "y", "r^", "e", "m">>, <<"t", "c^", "t", "y", "r^", "i">>, <<"t", "c^", "t", "y", "r^", "i">>, <<"t", "i", "c^", "t", "y", "r^", "e", "c", "h">>, <<"t", "i", "c^", "t", "y", "r^", "m", "i">>, <<>>, <<>>, <<>>, <<>>, <<>>, <<>>, <<>>>>)],
  (* line 772 *)
  [gender |-> "-", suffix |-> TRUE, lit |-> <<>>, rx |-> <<[cs |-> {"t"}, cap |-> FALSE], [cs |-> {"p"}, cap |-> FALSE], [cs |-> {"e^"}, cap |-> FALSE], [cs |-> {"t"}, cap |-> FALSE]>>,
     forms |-> Forms(<<<<"t", "i", "p", "e^", "t", "i">>, <<"t", "i", "p", "e^", "t", "i">>, <<"t", "p", "e^", "t">>, <<"t", "p", "e^", "t">>, <<"t", "i", "p", "e^", "t", "i">>, <<"t", "i", "p", "e^", "t", "i">>, <<>>, <<>>, <<>>, <<>>, <<>>, <<>>, <<>>>>)],
  (* line 773 *)
  [gender |-> "-", suffix |-> TRUE, lit |-> <<>>, rx |-> <<[cs |-> {"t"}, cap |-> FALSE], [cs |-> {"s^"}, cap |-> FALSE], [cs |-> {"e"}, cap |-> FALSE], [cs |-> {"s"}, cap |-> FALSE], [cs |-> {"t"}, cap |-> FALSE]>>,
     forms |-> Forms(<<<<"t", "i", "s^", "e", "s", "t", "i">>, <<"t", "i", "s^", "e", "s", "t", "i">>, <<"t", "s^", "e", "s", "t">>, <<"t", "s^", "e", "s", "t">>, <<"t", "i", "s^", "e", "s", "t", "i">>, <<"t", "i", "s^", "e", "s", "t", "i">>, <<>>, <<>>, <<>>, <<>>, <<>>, <<>>, <<>>>>)],
  (* line 774 *)
  [gender |-> "-", suffix |-> TRUE, lit |-> <<>>, rx |-> <<[cs |-> {"t"}, cap |-> FALSE], [cs |-> {"s"}, cap |-> FALSE], [cs |-> {"e"}, cap |-> FALSE], [cs |-> {"d"}, cap |-> FALSE], [cs |-> {"m"}, cap |-> FALSE]>>,
     forms |-> Forms(<<<<"t", "i", "s", "e", "d", "m", "i">>, <<"t", "i", "s", "e", "d", "m", "i">>, <<"t", "s", "e", "d", "m">>, <<"t", "s", "e", "d", "m">>, <<"t", "i", "s", "e", "d", "m", "i">>, <<"t", "i", "s", "e", "d", "m", "i">>, <<>>, <<>>, <<>>, <<>>, <<>>, <<>>, <<>>>>)],
  (* line 775 *)
  [gender |-> "-", suffix |-> TRUE, lit |-> <<>>, rx |-> <<[cs |-> {"t"}, cap |-> FALSE], [cs |-> {"o"}, cap |-> FALSE], [cs |-> {"s"}, cap |-> FALSE], [cs |-> {"m"}, cap |-> FALSE]>>,
     forms |-> Forms(<<<<"t", "i", "o", "s", "m", "i">>, <<"t", "i", "o", "s", "m", "i">>, <<"t", "o", "s", "m">>, <<"t", "o", "s", "m">>, <<"t", "i", "o", "s", "m", "i">>, <<"t", "i", "o", "s", "m", "i">>, <<>>, <<>>, <<>>, <<>>, <<>>, <<>>, <<>>>>)],
  (* line 776 *)
  [gender |-> "-", suffix |-> TRUE, lit |-> <<>>, rx |-> <<[cs |-> {"t"}, cap |-> FALSE], [cs |-> {"d"}, cap |-> FALSE], [cs |-> {"e"}, cap |-> FALSE], [cs |-> {"v"}, cap |-> FALSE], [cs |-> {"e^"}, cap |-> FALSE], [cs |-> {"t"}, cap |-> FALSE]>>,
     forms |-> Forms(<<<<"t", "i", "d", "e", "v", "i'", "t", "i">>, <<"t", "i", "d", "e", "v", "i'", "t", "i">>, <<"t", "d", "e", "v", "e^", "t">>, <<"t", "d", "e", "v", "e^", "t">>, <<"t", "i", "d", "e", "v", "i'", "t", "i">>, <<"t", "i", "d", "e", "v", "i'", "t", "i">>, <<>>, <<>>, <<>>, <<>>, <<>>, <<>>, <<>>>>)],
  (* line 778 *)
  [gender |-> "f", suffix |-> TRUE, lit |-> <<>>, rx |-> <<[cs |-> {"j"}, cap |-> FALSE], [cs |-> {"e"}, cap |-> FALSE], [cs |-> {"d"}, cap |-> FALSE], [cs |-> {"n"}, cap |-> FALSE], [cs |-> {"a"}, cap |-> FALSE]>>,
     forms |-> Forms(<<<<"j", "e", "d", "n", "e'">>, <<"j", "e", "d", "n", "e'">>, <<"j", "e", "d", "n", "u">>, <<"j", "e", "d", "n", "o">>, <<"j", "e", "d", "n", "e'">>, <<"j", "e", "d", "n", "o", "u">>, <<>>, <<>>, <<>>, <<>>, <<>>, <<>>, <<>>>>)],
  (* line 779 *)
  [gender |-> "m", suffix |-> TRUE, lit |-> <<>>, rx |-> <<[cs |-> {"j"}, cap |-> FALSE], [cs |-> {"e"}, cap |-> FALSE], [cs |-> {"d"}, cap |-> FALSE], [cs |-> {"e"}, cap |-> FALSE], [cs |-> {"n"}, cap |-> FALSE]>>,
     forms |-> Forms(<<<<"j", "e", "d", "n", "o", "h", "o">>, <<"j", "e", "d", "n", "o", "m", "u">>, <<"j", "e", "d", "n", "o", "h", "o">>, <<"j", "e", "d", "e", "n">>, <<"j", "e", "d", "n", "o", "m">>, <<"j", "e", "d", "n", "i'", "m">>, <<>>, <<>>, <<>>, <<>>, <<>>, <<>>, <<>>>>)],
  (* line 780 *)
  [gender |-> "s", suffix |-> TRUE, lit |-> <<>>, rx |-> <<[cs |-> {"j"}, cap |-> FALSE], [cs |-> {"e"}, cap |-> FALSE], [cs |-> {"d"}, cap |-> FALSE], [cs |-> {"n"}, cap |-> FALSE], [cs |-> {"o"}, cap |-> FALSE]>>,
     forms |-> Forms(<<<<"j", "e", "d", "n", "o", "h", "o">>, <<"j", "e", "d", "n", "o", "m", "u">>, <<"j", "e", "d", "n", "o", "h", "o">>, <<"j", "e", "d", "n", "o">>, <<"j", "e", "d", "n", "o", "m">>, <<"j", "e", "d", "n", "i'", "m">>, <<>>, <<>>, <<>>, <<>>, <<>>, <<>>, <<>>>>)],
  (* line 781 *)
  [gender |-> "-", suffix |-> TRUE, lit |-> <<>>, rx |-> <<[cs |-> {"d"}, cap |-> FALSE], [cs |-> {"v"}, cap |-> FALSE], [cs |-> {"a"}, cap |-> FALSE]>>,
     forms |-> Forms(<<<<"d", "v", "o", "u">>, <<"d", "v", "o", "u", "m">>, <<"d", "v", "a">>, <<"d", "v", "a">>, <<"d", "v", "o", "u">>, <<"d", "v", "e^", "m", "i">>, <<>>, <<>>, <<>>, <<>>, <<>>, <<>>, <<>>>>)],
  (* line 782 *)
  [gender |-> "-", suffix |-> TRUE, lit |-> <<>>, rx |-> <<[cs |-> {"d"}, cap |-> FALSE], [cs |-> {"v"}, cap |-> FALSE], [cs |-> {"e^"}, cap |-> FALSE]>>,
     forms |-> Forms(<<<<"d", "v", "o", "u">>, <<"d", "v", "o", "u", "m">>, <<"d", "v", "a">>, <<"d", "v", "a">>, <<"d", "v", "o", "u">>, <<"d", "v", "e^", "m", "i">>, <<>>, <<>>, <<>>, <<>>, <<>>, <<>>, <<>>>>)],
  (* line 783 *)
  [gender |-> "-", suffix |-> TRUE, lit |-> <<>>, rx |-> <<[cs |-> {"t"}, cap |-> FALSE], [cs |-> {"r^"}, cap |-> FALSE], [cs |-> {"i"}, cap |-> FALSE]>>,
     forms |-> Forms(<<<<"t", "r^", "i'">>, <<"t", "r^", "e", "m">>, <<"t", "r^", "i">>, <<"t", "r^", "i">>, <<"t", "r^", "e", "c", "h">>, <<"t", "r^", "e", "m", "i">>, <<>>, <<>>, <<>>, <<>>, <<>>, <<>>, <<>>>>)],
  (* line 784 *)
  [gender |-> "-", suffix |-> TRUE, lit |-> <<>>, rx |-> <<[cs |-> {"c^"}, cap |-> FALSE], [cs |-> {"t"}, cap |-> FALSE], [cs |-> {"y"}, cap |-> FALSE], [cs |-> {"r^"}, cap |-> FALSE], [cs |-> {"i"}, cap |-> FALSE]>>,
     forms |-> Forms(<<<<"c^", "t", "y", "r^", "e", "c", "h">>, <<"c^", "t", "y", "r^", "e", "m">>, <<"c^", "t", "y", "r^", "i">>, <<"c^", "t", "y", "r^", "i">>, <<"c^", "t", "y", "r^", "e", "c", "h">>, <<"c^", "t", "y", "r^", "m", "i">>, <<>>, <<>>, <<>>, <<>>, <<>>, <<>>, <<>>>>)],
  (* line 785 *)
  [gender |-> "-", suffix |-> TRUE, lit |-> <<>>, rx |-> <<[cs |-> {"p"}, cap |-> FALSE], [cs |-> {"e^"}, cap |-> FALSE], [cs |-> {"t"}, cap |-> FALSE]>>,
     forms |-> Forms(<<<<"p", "e^", "t", "i">>, <<"p", "e^", "t", "i">>, <<"p", "e^", "t">>, <<"p", "e^", "t">>, <<"p", "e^", "t", "i">>, <<"p", "e^", "t", "i">>, <<>>, <<>>, <<>>, <<>>, <<>>, <<>>, <<>>>>)],
  (* line 786 *)
  [gender |-> "-", suffix |-> TRUE, lit |-> <<>>, rx |-> <<[cs |-> {"s^"}, cap |-> FALSE], [cs |-> {"e"}, cap |-> FALSE], [cs |-> {"s"}, cap |-> FALSE], [cs |-> {"t"}, cap |-> FALSE]>>,
     forms |-> Forms(<<<<"s^", "e", "s", "t", "i">>, <<"s^", "e", "s", "t", "i">>, <<"s^", "e", "s", "t">>, <<"s^", "e", "s", "t">>, <<"s^", "e", "s", "t", "i">>, <<"s^", "e", "s", "t", "i">>, <<>>, <<>>, <<>>, <<>>, <<>>, <<>>, <<>>>>)],
  (* line 787 *)
  [gender |-> "-", suffix |-> TRUE, lit |-> <<>>, rx |-> <<[cs |-> {"s"}, cap |-> FALSE], [cs |-> {"e"}, cap |-> FALSE], [cs |-> {"d"}, cap |-> FALSE], [cs |-> {"m"}, cap |-> FALSE]>>,
     forms |-> Forms(<<<<"s", "e", "d", "m", "i">>, <<"s", "e", "d", "m", "i">>, <<"s", "e", "d", "m">>, <<"s", "e", "d", "m">>, <<"s", "e", "d", "m", "i">>, <<"s", "e", "d", "m", "i">>, <<>>, <<>>, <<>>, <<>>, <<>>, <<>>, <<>>>>)],
  (* line 788 *)
  [gender |-> "-", suffix |-> TRUE, lit |-> <<>>, rx |-> <<[cs |-> {"o"}, cap |-> FALSE], [cs |-> {"s"}, cap |-> FALSE], [cs |-> {"m"}, cap |-> FALSE]>>,
     forms |-> Forms(<<<<"o", "s", "m", "i">>, <<"o", "s", "m", "i">>, <<"o", "s", "m">>, <<"o", "s", "m">>, <<"o", "s", "m", "i">>, <<"o", "s", "m", "i">>, <<>>, <<>>, <<>>, <<>>, <<>>, <<>>, <<>>>>)],
  (* line 789 *)
  [gender |-> "-", suffix |-> TRUE, lit |-> <<>>, rx |-> <<[cs |-> {"d"}, cap |-> FALSE], [cs |-> {"e"}, cap |-> FALSE], [cs |-> {"v"}, cap |-> FALSE], [cs |-> {"e^"}, cap |-> FALSE], [cs |-> {"t"}, cap |-> FALSE]>>,
     forms |-> Forms(<<<<"d", "e", "v", "i'", "t", "i">>, <<"d", "e", "v", "i'", "t", "i">>, <<"d", "e", "v", "e^", "t">>, <<"d", "e", "v", "e^", "t">>, <<"d", "e", "v", "i'", "t", "i">>, <<"d", "e", "v", "i'", "t", "i">>, <<>>, <<>>, <<>>, <<>>, <<>>, <<>>, <<>>>>)],
  (* line 791 *)
  [gender |-> "-", suffix |-> FALSE, lit |-> <<"d", "e", "s", "e", "t">>, rx |-> <<>>,
     forms |-> Forms(<<<<"d", "e", "s", "e", "t", "i">>, <<"d", "e", "s", "e", "t", "i">>, <<"d", "e", "s", "e", "t">>, <<"d", "e", "s", "e", "t">>, <<"d", "e", "s", "e", "t", "i">>, <<"d", "e", "s", "e", "t", "i">>, <<>>, <<>>, <<>>, <<>>, <<>>, <<>>, <<>>>>)],
  (* line 793 *)
  [gender |-> "-", suffix |-> TRUE, lit |-> <<>>, rx |-> <<[cs |-> {"n"}, cap |-> FALSE], [cs |-> {"a'"}, cap |-> FALSE], [cs |-> {"c", "s"}, cap |-> TRUE], [cs |-> {"t"}, cap |-> FALSE]>>,
     forms |-> Forms(<<<<"n", "a'", "0", "t", "i">>, <<"n", "a'", "0", "t", "i">>, <<"n", "a'", "0", "t">>, <<"n", "a'", "c", "t">>, <<"n", "a'", "0", "t", "i">>, <<"n", "a'", "0", "t", "i">>, <<>>, <<>>, <<>>, <<>>, <<>>, <<>>, <<>>>>)],
  (* line 795 *)
  [gender |-> "-", suffix |-> TRUE, lit |-> <<>>, rx |-> <<[cs |-> {"d"}, cap |-> FALSE], [cs |-> {"v"}, cap |-> FALSE], [cs |-> {"a"}, cap |-> FALSE], [cs |-> {"c"}, cap |-> FALSE], [cs |-> {"e"}, cap |-> FALSE], [cs |-> {"t"}, cap |-> FALSE]>>,
     forms |-> Forms(<<<<"d", "v", "a", "c", "e", "t", "i">>, <<"d", "v", "a", "c", "e", "t", "i">>, <<"d", "v", "a", "c", "e", "t">>, <<"d", "v", "a", "c", "e", "t">>, <<"d", "v", "a", "c", "e", "t", "i">>, <<"d", "v", "a", "c", "e", "t", "i">>, <<>>, <<>>, <<>>, <<>>, <<>>, <<>>, <<>>>>)],
  (* line 796 *)
  [gender |-> "-", suffix |-> TRUE, lit |-> <<>>, rx |-> <<[cs |-> {"t"}, cap |-> FALSE], [cs |-> {"r^"}, cap |-> FALSE], [cs |-> {"i"}, cap |-> FALSE], [cs |-> {"c"}, cap |-> FALSE], [cs |-> {"e"}, cap |-> FALSE], [cs |-> {"t"}, cap |-> FALSE]>>,
     forms |-> Forms(<<<<"t", "r^", "i", "c", "e", "t", "i">>, <<"t", "r^", "i", "c", "e", "t", "i">>, <<"t", "r^", "i", "c", "e", "t">>, <<"t", "r^", "i", "c", "e", "t">>, <<"t", "r^", "i", "c", "e", "t", "i">>, <<"t", "r^", "i", "c", "e", "t", "i">>, <<>>, <<>>, <<>>, <<>>, <<>>, <<>>, <<>>>>)],
  (* line 797 *)
  [gender |-> "-", suffix |-> TRUE, lit |-> <<>>, rx |-> <<[cs |-> {"c^"}, cap |-> FALSE], [cs |-> {"t"}, cap |-> FALSE], [cs |-> {"y"}, cap |-> FALSE], [cs |-> {"r^"}, cap |-> FALSE], [cs |-> {"i"}, cap |-> FALSE], [cs |-> {"c"}, cap |-> FALSE], [cs |-> {"e"}, cap |-> FALSE], [cs |-> {"t"}, cap |-> FALSE]>>,
     forms |-> Forms(<<<<"c^", "t", "y", "r^", "i", "c", "e", "t", "i">>, <<"c^", "t", "y", "r^", "i", "c", "e", "t", "i">>, <<"c^", "t", "y", "r^", "i", "c", "e", "t">>, <<"c^", "t", "y", "r^", "i", "c", "e", "t">>, <<"c^", "t", "y", "r^", "i", "c", "e", "t", "i">>, <<"c^", "t", "y", "r^", "i", "c", "e", "t", "i">>, <<>>, <<>>, <<>>, <<>>, <<>>, <<>>, <<>>>>)],
  (* line 798 *)
  [gender |-> "-", suffix |-> TRUE, lit |-> <<>>, rx |-> <<[cs |-> {"d"}, cap |-> FALSE], [cs |-> {"e"}, cap |-> FALSE], [cs |-> {"s"}, cap |-> FALSE], [cs |-> {"a'"}, cap |-> FALSE], [cs |-> {"t"}, cap |-> FALSE]>>,
     forms |-> Forms(<<<<"d", "e", "s", "a'", "t", "i">>, <<"d", "e", "s", "a'", "t", "i">>, <<"d", "e", "s", "a'", "t">>, <<"d", "e", "s", "a'", "t">>, <<"d", "e", "s", "a'", "t", "i">>, <<"d", "e", "s", "a'", "t", "i">>, <<>>, <<>>, <<>>, <<>>, <<>>, <<>>, <<>>>>)],
  (* line 800 *)
  [gender |-> "m", suffix |-> TRUE, lit |-> <<>>, rx |-> <<[cs |-> {"i"}, cap |-> TRUE], [cs |-> {"s"}, cap |-> FALSE], [cs |-> {"t"}, cap |-> FALSE], [cs |-> {"a"}, cap |-> FALSE]>>,
     forms |-> Forms(<<<<"0", "s", "t", "y">>, <<"0", "s", "t", "o", "v", "i">>, <<"0", "s", "t", "u">>, <<"0", "s", "t", "o">>, <<"0", "s", "t", "o", "v", "i">>, <<"0", "s", "t", "o", "u">>, <<"0", "s", "t", "e'">>, <<"0", "s", "t", "u~">>, <<"0", "s", "t", "u~", "m">>, <<"0", "s", "t", "y">>, <<"0", "s", "t", "e'">>, <<"0", "s", "t", "e", "c", "h">>, <<"0", "s", "t", "y">>>>)],
  (* line 801 *)
  [gender |-> "m", suffix |-> TRUE, lit |-> <<>>, rx |-> <<[cs |-> {"o"}, cap |-> TRUE], [cs |-> {"s"}, cap |-> FALSE], [cs |-> {"t"}, cap |-> FALSE], [cs |-> {"a"}, cap |-> FALSE]>>,
     forms |-> Forms(<<<<"0", "s", "t", "y">>, <<"0", "s", "t", "o", "v", "i">>, <<"0", "s", "t", "u">>, <<"0", "s", "t", "o">>, <<"0", "s", "t", "o", "v", "i">>, <<"0", "s", "t", "o", "u">>, <<"0", "s", "t", "o", "v", "e'">>, <<"0", "s", "t", "u~">>, <<"0", "s", "t", "u~", "m">>, <<"0", "s", "t", "y">>, <<"0", "s", "t", "e'">>, <<"0", "s", "t", "e", "c", "h">>, <<"0", "s", "t", "y">>>>)],
  (* line 803 *)
  [gender |-> "m", suffix |-> TRUE, lit |-> <<>>, rx |-> <<[cs |-> {"p"}, cap |-> FALSE], [cs |-> {"r^"}, cap |-> FALSE], [cs |-> {"e"}, cap |-> FALSE], [cs |-> {"d"}, cap |-> FALSE], [cs |-> {"s"}, cap |-> FALSE], [cs |-> {"e"}, cap |-> FALSE], [cs |-> {"d"}, cap |-> FALSE], [cs |-> {"a"}, cap |-> FALSE]>>,
     forms |-> Forms(<<<<"p", "r^", "e", "d", "s", "e", "d", "y">>, <<"p", "r^", "e", "d", "s", "e", "d", "o", "v", "i">>, <<"p", "r^", "e", "d", "s", "e", "d", "u">>, <<"p", "r^", "e", "d", "s", "e", "d", "o">>, <<"p", "r^", "e", "d", "s", "e", "d", "o", "v", "i">>, <<"p", "r^", "e", "d", "s", "e", "d", "o", "u">>, <<"p", "r^", "e", "d", "s", "e", "d", "o", "v", "e'">>, <<"p", "r^", "e", "d", "s", "e", "d", "u~">>, <<"p", "r^", "e", "d", "s", "e", "d", "u~", "m">>, <<"p", "r^", "e", "d", "s", "e", "d", "y">>, <<"p", "r^", "e", "d", "s", "e", "d", "o", "v", "e'">>, <<"p", "r^", "e", "d", "s", "e", "d", "e", "c", "h">>, <<"p", "r^", "e", "d", "s", "e", "d", "y">>>>)],
  (* line 804 *)
  [gender |-> "m", suffix |-> TRUE, lit |-> <<>>, rx |-> <<[cs |-> {"s"}, cap |-> FALSE], [cs |-> {"r"}, cap |-> FALSE], [cs |-> {"d"}, cap |-> FALSE], [cs |-> {"c"}, cap |-> FALSE], [cs |-> {"e"}, cap |-> FALSE]>>,
     forms |-> Forms(<<<<"s", "r", "d", "c", "e">>, <<"s", "r", "d", "i">>, <<"s", "d", "r", "c", "e">>, <<"s", "r", "d", "c", "e">>, <<"s", "r", "d", "c", "i">>, <<"s", "r", "d", "c", "e", "m">>, <<"s", "r", "d", "c", "e">>, <<"s", "r", "d", "c", "i'">>, <<"s", "r", "d", "c", "i'", "m">>, <<"s", "r", "d", "c", "e">>, <<"s", "r", "d", "c", "e">>, <<"s", "r", "d", "c", "i'", "c", "h">>, <<"s", "r", "d", "c", "e", "m", "i">>>>)],
  (* line 806 *)
  [gender |-> "m", suffix |-> TRUE, lit |-> <<>>, rx |-> <<[cs |-> {"d", "b"}, cap |-> TRUE], [cs |-> {"c"}, cap |-> FALSE], [cs |-> {"e"}, cap |-> FALSE]>>,
     forms |-> Forms(<<<<"0", "c", "e">>, <<"0", "c", "i">>, <<"0", "c", "e">>, <<"0", "c^", "e">>, <<"0", "c", "i">>, <<"0", "c", "e", "m">>, <<"0", "c", "i", "/", "0", "c", "o", "v", "e'">>, <<"0", "c", "u~">>, <<"0", "c", "u~", "m">>, <<"0", "c", "e">>, <<"0", "c", "i", "/", "0", "c", "o", "v", "e'">>, <<"0", "c", "i'", "c", "h">>, <<"0", "c", "i">>>>)],
  (* line 807 *)
  [gender |-> "m", suffix |-> TRUE, lit |-> <<>>, rx |-> <<[cs |-> {"j", "n^"}, cap |-> TRUE], [cs |-> {"e"}, cap |-> FALSE], [cs |-> {"v"}, cap |-> FALSE]>>,
     forms |-> Forms(<<<<"0", "e", "v", "u">>, <<"0", "e", "v", "u">>, <<"0", "e", "v">>, <<"0", "e", "v", "e">>, <<"0", "e", "v", "u">>, <<"0", "e", "v", "e", "m">>, <<"0", "e", "v", "y">>, <<"0", "e", "v", "u~">>, <<"0", "e", "v", "u~", "m">>, <<"0", "e", "v", "y">>, <<"0", "e", "v", "y">>, <<"0", "e", "v", "e", "c", "h">>, <<"0", "e", "v", "y">>>>)],
  (* line 808 *)
  [gender |-> "m", suffix |-> TRUE, lit |-> <<>>, rx |-> <<[cs |-> {"l", "r^"}, cap |-> TRUE], [cs |-> {"e"}, cap |-> FALSE], [cs |-> {"v"}, cap |-> FALSE]>>,
     forms |-> Forms(<<<<"0", "e", "v", "u", "/", "0", "v", "a">>, <<"0", "e", "v", "u", "/", "0", "v", "o", "v", "i">>, <<"0", "e", "v", "/", "0", "v", "a">>, <<"0", "e", "v", "e", "/", "0", "v", "e">>, <<"0", "e", "v", "u", "/", "0", "v", "o", "v", "i">>, <<"0", "e", "v", "e", "m", "/", "0", "v", "e", "m">>, <<"0", "e", "v", "y", "/", "0", "v", "o", "v", "e'">>, <<"0", "e", "v", "u~", "/", "0", "v", "u~">>, <<"0", "e", "v", "u~", "m", "/", "0", "v", "u~", "m">>, <<"0", "e", "v", "y", "/", "0", "v", "y">>, <<"0", "e", "v", "y", "/", "0", "v", "o", "v", "e'">>, <<"0", "e", "v", "e", "c", "h", "/", "0", "v", "e", "c", "h">>, <<"0", "e", "v", "y", "/", "0", "v", "y">>>>)],
  (* line 809 *)
  [gender |-> "m", suffix |-> TRUE, lit |-> <<>>, rx |-> <<[cs |-> {"u~"}, cap |-> FALSE], [cs |-> {"l", "z"}, cap |-> TRUE]>>,
     forms |-> Forms(<<<<"o", "0", "u", "/", "o", "0", "a">>, <<"o", "0", "u", "/", "o", "0", "o", "v", "i">>, <<"u~", "0", "/", "o", "0", "a">>, <<"o", "0", "e">>, <<"o", "0", "u">>, <<"o", "0", "e", "m">>, <<"o", "0", "y", "/", "o", "0", "o", "v", "e'">>, <<"o", "0", "u~">>, <<"o", "0", "u~", "m">>, <<"o", "0", "y">>, <<"o", "0", "y", "/", "o", "0", "o", "v", "e'">>, <<"o", "0", "e", "c", "h">>, <<"o", "0", "y">>>>)],
  (* line 811 *)
  [gender |-> "m", suffix |-> FALSE, lit |-> <<"n", "u~", "z^">>, rx |-> <<>>,
     forms |-> Forms(<<<<"n", "o", "z^", "e">>, <<"n", "o", "z^", "i">>, <<"n", "u~", "z^">>, <<"n", "o", "z^", "i">>, <<"n", "o", "z^", "i">>, <<"n", "o", "z^", "e", "m">>, <<"n", "o", "z^", "e">>, <<"n", "o", "z^", "u~">>, <<"n", "o", "z^", "u~", "m">>, <<"n", "o", "z^", "e">>, <<"n", "o", "z^", "e">>, <<"n", "o", "z^", "i'", "c", "h">>, <<"n", "o", "z^", "i">>>>)],
  (* line 813 *)
  [gender |-> "s", suffix |-> TRUE, lit |-> <<>>, rx |-> <<[cs |-> {"b", "c", "c^", "d", "g", "h", "k", "s", "s^", "t", "v", "z", "z^"}, cap |-> TRUE], [cs |-> {"l"}, cap |-> FALSE], [cs |-> {"o"}, cap |-> FALSE]>>,
     forms |-> Forms(<<<<"0", "l", "a">>, <<"0", "l", "u">>, <<"0", "l", "o">>, <<"0", "l", "o">>, <<"0", "l", "u">>, <<"0", "l", "e", "m">>, <<"0", "l", "a">>, <<"0", "e", "l">>, <<"0", "l", "u~", "m">>, <<"0", "l", "a">>, <<"0", "l", "a">>, <<"0", "l", "e", "c", "h">>, <<"0", "l", "y">>>>)],
  (* line 814 *)
  [gender |-> "s", suffix |-> TRUE, lit |-> <<>>, rx |-> <<[cs |-> {"b", "c", "c^", "d", "n", "s", "s^", "t", "v", "z", "z^"}, cap |-> TRUE], [cs |-> {"k"}, cap |-> FALSE], [cs |-> {"o"}, cap |-> FALSE]>>,
     forms |-> Forms(<<<<"0", "k", "a">>, <<"0", "k", "u">>, <<"0", "k", "o">>, <<"0", "k", "o">>, <<"0", "k", "u">>, <<"0", "k", "e", "m">>, <<"0", "k", "a">>, <<"0", "e", "k">>, <<"0", "k", "u~", "m">>, <<"0", "k", "a">>, <<"0", "k", "a">>, <<"0", "c", "i'", "c", "h", "/", "0", "k", "a'", "c", "h">>, <<"0", "k", "y">>>>)],
  (* line 815 *)
  [gender |-> "s", suffix |-> TRUE, lit |-> <<>>, rx |-> <<[cs |-> {"b", "c", "c^", "d", "k", "s", "s^", "t", "v", "z", "z^"}, cap |-> TRUE], [cs |-> {"n"}, cap |-> FALSE], [cs |-> {"o"}, cap |-> FALSE]>>,
     forms |-> Forms(<<<<"0", "n", "a">>, <<"0", "n", "u">>, <<"0", "n", "o">>, <<"0", "n", "o">>, <<"0", "n", "u">>, <<"0", "n", "e", "m">>, <<"0", "n", "a">>, <<"0", "e", "n">>, <<"0", "n", "u~", "m">>, <<"0", "n", "a">>, <<"0", "n", "a">>, <<"0", "n", "e", "c", "h", "/", "0", "n", "a'", "c", "h">>, <<"0", "n", "y">>>>)],
  (* line 816 *)
  [gender |-> "s", suffix |-> TRUE, lit |-> <<>>, rx |-> <<[cs |-> {"o"}, cap |-> FALSE]>>,
     forms |-> Forms(<<<<"a">>, <<"u">>, <<"o">>, <<"o">>, <<"u">>, <<"e", "m">>, <<"a">>, <<>>, <<"u~", "m">>, <<"a">>, <<"a">>, <<"e", "c", "h">>, <<"y">>>>)],
  (* line 817 *)
  [gender |-> "s", suffix |-> TRUE, lit |-> <<>>, rx |-> <<[cs |-> {"i'"}, cap |-> FALSE]>>,
     forms |-> Forms(<<<<"i'">>, <<"i'">>, <<"i'">>, <<"i'">>, <<"i'">>, <<"i'", "m">>, <<"i'">>, <<"i'">>, <<"i'", "m">>, <<"i'">>, <<"i'">>, <<"i'", "c", "h">>, <<"i'", "m", "i">>>>)],
  (* line 818 *)
  [gender |-> "s", suffix |-> TRUE, lit |-> <<>>, rx |-> <<[cs |-> {"c^", "d^", "t^"}, cap |-> TRUE], [cs |-> {"e"}, cap |-> TRUE]>>,
     forms |-> Forms(<<<<"1", "0", "t", "e">>, <<"1", "0", "t", "i">>, <<"1", "0">>, <<"1", "0">>, <<"1", "0", "t", "i">>, <<"1", "0", "t", "e", "m">>, <<"1", "a", "t", "a">>, <<"1", "a", "t">>, <<"1", "a", "t", "u~", "m">>, <<"1", "a", "t", "a">>, <<"1", "a", "t", "a">>, <<"1", "a", "t", "e", "c", "h">>, <<"1", "a", "t", "y">>>>)],
  (* line 819 *)
  [gender |-> "f", suffix |-> TRUE, lit |-> <<>>, rx |-> <<[cs |-> {"a", "e", "i", "o", "u", "y", "a'", "e'", "i'", "o'", "u'", "y'"}, cap |-> TRUE], [cs |-> {"k"}, cap |-> FALSE], [cs |-> {"a"}, cap |-> FALSE]>>,
     forms |-> Forms(<<<<"0", "k", "y">>, <<"0", "c", "e">>, <<"0", "k", "u">>, <<"0", "k", "o">>, <<"0", "c", "e">>, <<"0", "k", "o", "u">>, <<"0", "k", "y">>, <<"0", "k">>, <<"0", "k", "a'", "m">>, <<"0", "k", "y">>, <<"0", "k", "y">>, <<"0", "k", "a'", "c", "h">>, <<"0", "k", "a", "m", "i">>>>)],
  (* line 820 *)
  [gender |-> "f", suffix |-> TRUE, lit |-> <<>>, rx |-> <<[cs |-> {"k"}, cap |-> FALSE], [cs |-> {"a"}, cap |-> FALSE]>>,
     forms |-> Forms(<<<<"k", "y">>, <<"c", "e">>, <<"k", "u">>, <<"k", "o">>, <<"c", "e">>, <<"k", "o", "u">>, <<"k", "y">>, <<"e", "k">>, <<"k", "a'", "m">>, <<"k", "y">>, <<"k", "y">>, <<"k", "a'", "c", "h">>, <<"k", "a", "m", "i">>>>)],
  (* line 821 *)
  [gender |-> "f", suffix |-> TRUE, lit |-> <<>>, rx |-> <<[cs |-> {"b", "d", "g", "h", "k", "m", "n", "p", "t", "v", "z"}, cap |-> TRUE], [cs |-> {"r"}, cap |-> FALSE], [cs |-> {"a"}, cap |-> FALSE]>>,
     forms |-> Forms(<<<<"0", "r", "y">>, <<"0", "r^", "e">>, <<"0", "r", "u">>, <<"0", "r", "o">>, <<"0", "r^", "e">>, <<"0", "r", "o", "u">>, <<"0", "r", "y">>, <<"0", "e", "r">>, <<"0", "r", "a'", "m">>, <<"0", "r", "y">>, <<"0", "r", "y">>, <<"0", "r", "a'", "c", "h">>, <<"0", "r", "a", "m", "i">>>>)],
  (* line 822 *)
  [gender |-> "f", suffix |-> TRUE, lit |-> <<>>, rx |-> <<[cs |-> {"r"}, cap |-> FALSE], [cs |-> {"a"}, cap |-> FALSE]>>,
     forms |-> Forms(<<<<"r", "y">>, <<"r^", "e">>, <<"r", "u">>, <<"r", "o">>, <<"r^", "e">>, <<"r", "o", "u">>, <<"r", "y">>, <<"r">>, <<"r", "a'", "m">>, <<"r", "y">>, <<"r", "y">>, <<"r", "a'", "c", "h">>, <<"r", "a", "m", "i">>>>)],
  (* line 823 *)
  [gender |-> "f", suffix |-> TRUE, lit |-> <<>>, rx |-> <<[cs |-> {"t", "d", "b", "n", "v", "m", "p"}, cap |-> TRUE], [cs |-> {"a"}, cap |-> FALSE]>>,
     forms |-> Forms(<<<<"0", "y">>, <<"0", "e^">>, <<"0", "u">>, <<"0", "o">>, <<"0", "e^">>, <<"0", "o", "u">>, <<"0", "y">>, <<"0">>, <<"0", "a'", "m">>, <<"0", "y">>, <<"0", "y">>, <<"0", "a'", "c", "h">>, <<"0", "a", "m", "i">>>>)],
  (* line 824 *)
  [gender |-> "f", suffix |-> TRUE, lit |-> <<>>, rx |-> <<[cs |-> {"c"}, cap |-> FALSE], [cs |-> {"h"}, cap |-> FALSE], [cs |-> {"a"}, cap |-> FALSE]>>,
     forms |-> Forms(<<<<"c", "h", "y">>, <<"s^", "e">>, <<"c", "h", "u">>, <<"c", "h", "o">>, <<"s^", "e">>, <<"c", "h", "o", "u">>, <<"c", "h", "y">>, <<"c", "h">>, <<"c", "h", "a'", "m">>, <<"c", "h", "y">>, <<"c", "h", "y">>, <<"c", "h", "a'", "c", "h">>, <<"c", "h", "a", "m", "i">>>>)],
  (* line 825 *)
  [gender |-> "f", suffix |-> TRUE, lit |-> <<>>, rx |-> <<[cs |-> {"g", "h"}, cap |-> TRUE], [cs |-> {"a"}, cap |-> FALSE]>>,
     forms |-> Forms(<<<<"0", "y">>, <<"z", "e">>, <<"0", "u">>, <<"0", "o">>, <<"z", "e">>, <<"0", "o", "u">>, <<"0", "y">>, <<"0">>, <<"0", "a'", "m">>, <<"0", "y">>, <<"0", "y">>, <<"0", "a'", "c", "h">>, <<"0", "a", "m", "i">>>>)],
  (* line 826 *)
  [gender |-> "f", suffix |-> TRUE, lit |-> <<>>, rx |-> <<[cs |-> {"n^"}, cap |-> FALSE], [cs |-> {"a"}, cap |-> FALSE]>>,
     forms |-> Forms(<<<<"n", "i">>, <<"n", "e^">>, <<"n^", "o", "u">>, <<"n^", "o">>, <<"n", "i">>, <<"n^", "o", "u">>, <<"n", "e^", "/", "n", "i", "c^", "k", "y">>, <<"n^">>, <<"n^", "a'", "m">>, <<"n", "e^", "/", "n", "i", "c^", "k", "y">>, <<"n", "e^", "/", "n", "i", "c^", "k", "y">>, <<"n^", "a'", "c", "h">>, <<"n^", "a", "m", "i">>>>)],
  (* line 827 *)
  [gender |-> "f", suffix |-> TRUE, lit |-> <<>>, rx |-> <<[cs |-> {"s^", "c^"}, cap |-> TRUE], [cs |-> {"a"}, cap |-> FALSE]>>,
     forms |-> Forms(<<<<"0", "i">>, <<"0", "e">>, <<"0", "u">>, <<"0", "o">>, <<"0", "e">>, <<"0", "o", "u">>, <<"0", "e", "/", "0", "i">>, <<"0">>, <<"0", "a'", "m">>, <<"0", "e", "/", "0", "i">>, <<"0", "e", "/", "0", "i">>, <<"0", "a'", "c", "h">>, <<"0", "a", "m", "i">>>>)],
  (* line 828 *)
  [gender |-> "f", suffix |-> TRUE, lit |-> <<>>, rx |-> <<[cs |-> {"a"}, cap |-> FALSE]>>,
     forms |-> Forms(<<<<"y">>, <<"e">>, <<"u">>, <<"o">>, <<"e">>, <<"o", "u">>, <<"y">>, <<>>, <<"a'", "m">>, <<"y">>, <<"y">>, <<"a'", "c", "h">>, <<"a", "m", "i">>>>)],
  (* line 829 *)
  [gender |-> "f", suffix |-> TRUE, lit |-> <<>>, rx |-> <<[cs |-> {"e"}, cap |-> FALSE], [cs |-> {"n^"}, cap |-> FALSE]>>,
     forms |-> Forms(<<<<"n", "e^">>, <<"n", "i">>, <<"e", "n^">>, <<"n", "i">>, <<"n", "i">>, <<"n", "i'">>, <<"n", "e^">>, <<"n", "i'">>, <<"n", "i'", "m">>, <<"n", "e^">>, <<"n", "e^">>, <<"n", "i'", "c", "h">>, <<"n", "e^", "m", "i">>>>)],
  (* line 830 *)
  [gender |-> "f", suffix |-> TRUE, lit |-> <<>>, rx |-> <<[cs |-> {"o"}, cap |-> FALSE], [cs |-> {"n^"}, cap |-> FALSE]>>,
     forms |-> Forms(<<<<"o", "n", "e^">>, <<"o", "n", "i">>, <<"o", "n^">>, <<"o", "n", "i">>, <<"o", "n", "i">>, <<"o", "n", "i'">>, <<"o", "n", "e^">>, <<"o", "n", "i'">>, <<"o", "n", "i'", "m">>, <<"o", "n", "e^">>, <<"o", "n", "e^">>, <<"o", "n", "i'", "c", "h">>, <<"o", "n", "e^", "m", "i">>>>)],
  (* line 831 *)
  [gender |-> "f", suffix |-> TRUE, lit |-> <<>>, rx |-> <<[cs |-> {"e^"}, cap |-> TRUE], [cs |-> {"j"}, cap |-> FALSE]>>,
     forms |-> Forms(<<<<"0", "j", "e">>, <<"0", "j", "i">>, <<"0", "j">>, <<"0", "j", "i">>, <<"0", "j", "i">>, <<"0", "j", "i'">>, <<"0", "j", "e">>, <<"0", "j", "i'">>, <<"0", "j", "i'", "m">>, <<"0", "j", "e">>, <<"0", "j", "e">>, <<"0", "j", "i'", "c", "h">>, <<"0", "j", "e", "m", "i">>>>)],
  (* line 832 *)
  [gender |-> "f", suffix |-> TRUE, lit |-> <<>>, rx |-> <<[cs |-> {"e"}, cap |-> FALSE], [cs |-> {"v"}, cap |-> FALSE]>>,
     forms |-> Forms(<<<<"v", "e">>, <<"v", "i">>, <<"e", "v">>, <<"v", "i">>, <<"v", "i">>, <<"v", "i'">>, <<"v", "e">>, <<"v", "i'">>, <<"v", "i'", "m">>, <<"v", "e">>, <<"v", "e">>, <<"v", "i'", "c", "h">>, <<"v", "e", "m", "i">>>>)],
  (* line 833 *)
  [gender |-> "f", suffix |-> TRUE, lit |-> <<>>, rx |-> <<[cs |-> {"i"}, cap |-> FALSE], [cs |-> {"c"}, cap |-> FALSE], [cs |-> {"e"}, cap |-> FALSE]>>,
     forms |-> Forms(<<<<"i", "c", "e">>, <<"i", "c", "i">>, <<"i", "c", "i">>, <<"i", "c", "e">>, <<"i", "c", "i">>, <<"i", "c", "i'">>, <<"i", "c", "e">>, <<"i", "c">>, <<"i", "c", "i'", "m">>, <<"i", "c", "e">>, <<"i", "c", "e">>, <<"i", "c", "i'", "c", "h">>, <<"i", "c", "e", "m", "i">>>>)],
  (* line 834 *)
  [gender |-> "f", suffix |-> TRUE, lit |-> <<>>, rx |-> <<[cs |-> {"e"}, cap |-> FALSE]>>,
     forms |-> Forms(<<<<"e">>, <<"i">>, <<"i">>, <<"e">>, <<"i">>, <<"i'">>, <<"e">>, <<"i'">>, <<"i'", "m">>, <<"e">>, <<"e">>, <<"i'", "c", "h">>, <<"e", "m", "i">>>>)],
  (* line 835 *)
  [gender |-> "f", suffix |-> TRUE, lit |-> <<>>, rx |-> <<[cs |-> {"e", "a", "a'"}, cap |-> TRUE], [cs |-> {"j", "z^", "n^"}, cap |-> TRUE]>>,
     forms |-> Forms(<<<<"1", "0", "e", "/", "1", "0", "i">>, <<"1", "0", "i">>, <<"1", "0">>, <<"1", "0", "i">>, <<"1", "0", "i">>, <<"1", "0", "i'">>, <<"1", "0", "e", "/", "1", "0", "i">>, <<"1", "0", "i'">>, <<"1", "0", "i'", "m">>, <<"1", "0", "e">>, <<"1", "0", "e">>, <<"1", "0", "i'", "c", "h">>, <<"1", "0", "e", "m", "i">>>>)],
  (* line 836 *)
  [gender |-> "f", suffix |-> TRUE, lit |-> <<>>, rx |-> <<[cs |-> {"e", "a", "y", "o"}, cap |-> TRUE], [cs |-> {"s^"}, cap |-> TRUE]>>,
     forms |-> Forms(<<<<"1", "0", "e", "/", "1", "0", "i">>, <<"1", "0", "i">>, <<"1", "0">>, <<"1", "0", "i">>, <<"1", "0", "i">>, <<"1", "0", "i'">>, <<"1", "0", "e", "/", "1", "0", "i">>, <<"1", "0", "i'">>, <<"1", "0", "i'", "m">>, <<"1", "0", "e">>, <<"1", "0", "e">>, <<"1", "0", "i'", "c", "h">>, <<"1", "0", "e", "m", "i">>>>)],
  (* line 837 *)
  [gender |-> "f", suffix |-> TRUE, lit |-> <<>>, rx |-> <<[cs |-> {"i'", "y"}, cap |-> TRUE], [cs |-> {"n^"}, cap |-> FALSE]>>,
     forms |-> Forms(<<<<"0", "n", "e^">>, <<"0", "n", "i">>, <<"0", "n^">>, <<"0", "n", "i">>, <<"0", "n", "i">>, <<"0", "n", "i'">>, <<"0", "n", "e^">>, <<"0", "n", "i'">>, <<"0", "n", "i'", "m">>, <<"0", "n", "e^">>, <<"0", "n", "e^">>, <<"0", "n", "i'", "c", "h">>, <<"0", "n", "e^", "m", "i">>>>)],
  (* line 839 *)
  [gender |-> "f", suffix |-> TRUE, lit |-> <<>>, rx |-> <<[cs |-> {"i'", "y", "y'"}, cap |-> TRUE], [cs |-> {"n^"}, cap |-> FALSE], [cs |-> {"e"}, cap |-> FALSE]>>,
     forms |-> Forms(<<<<"0", "n", "e^">>, <<"0", "n", "i">>, <<"0", "n^">>, <<"0", "n", "i">>, <<"0", "n", "i">>, <<"0", "n", "i'">>, <<"0", "n", "e^">>, <<"0", "n", "i'">>, <<"0", "n", "i'", "m">>, <<"0", "n", "e^">>, <<"0", "n", "e^">>, <<"0", "n", "i'", "c", "h">>, <<"0", "n", "e^", "m", "i">>>>)],
  (* line 840 *)
  [gender |-> "f", suffix |-> TRUE, lit |-> <<>>, rx |-> <<[cs |-> {"t^", "d^", "z^"}, cap |-> TRUE]>>,
     forms |-> Forms(<<<<"0", "e">>, <<"0", "i">>, <<"0">>, <<"0", "i">>, <<"0", "i">>, <<"0", "i'">>, <<"0", "e">>, <<"0", "i'">>, <<"0", "i'", "m">>, <<"0", "e">>, <<"0", "e">>, <<"0", "i'", "c", "h">>, <<"0", "e", "m", "i">>>>)],
  (* line 841 *)
  [gender |-> "f", suffix |-> TRUE, lit |-> <<>>, rx |-> <<[cs |-> {"t"}, cap |-> FALSE], [cs |-> {"o"}, cap |-> FALSE], [cs |-> {"r^"}, cap |-> FALSE]>>,
     forms |-> Forms(<<<<"t", "o", "r^", "e">>, <<"t", "o", "r^", "i">>, <<"t", "o", "r^">>, <<"t", "o", "r^", "i">>, <<"t", "o", "r^", "i">>, <<"t", "o", "r^", "i'">>, <<"t", "o", "r^", "e">>, <<"t", "o", "r^", "i'">>, <<"t", "o", "r^", "i'", "m">>, <<"t", "o", "r^", "e">>, <<"t", "o", "r^", "e">>, <<"t", "o", "r^", "i'", "c", "h">>, <<"t", "o", "r^", "e", "m", "i">>>>)],
  (* line 842 *)
  [gender |-> "f", suffix |-> TRUE, lit |-> <<>>, rx |-> <<[cs |-> {"e"}, cap |-> FALSE], [cs |-> {"p"}, cap |-> FALSE]>>,
     forms |-> Forms(<<<<"e", "p", "i">>, <<"e", "p", "i">>, <<"e", "p">>, <<"e", "p", "i">>, <<"e", "p", "i">>, <<"e", "p", "i'">>, <<"e", "p", "i">>, <<"e", "p", "i'">>, <<"e", "p", "i'", "m">>, <<"e", "p", "i">>, <<"e", "p", "i">>, <<"e", "p", "i'", "c", "h">>, <<"e", "p", "m", "i">>>>)],
  (* line 844 *)
  [gender |-> "f", suffix |-> TRUE, lit |-> <<>>, rx |-> <<[cs |-> {"s"}, cap |-> FALSE], [cs |-> {"t"}, cap |-> FALSE]>>,
     forms |-> Forms(<<<<"s", "t", "i">>, <<"s", "t", "i">>, <<"s", "t">>, <<"s", "t", "i">>, <<"s", "t", "i">>, <<"s", "t", "i'">>, <<"s", "t", "i">>, <<"s", "t", "i'">>, <<"s", "t", "e", "m">>, <<"s", "t", "i">>, <<"s", "t", "i">>, <<"s", "t", "e", "c", "h">>, <<"s", "t", "m", "i">>>>)],
  (* line 846 *)
  [gender |-> "f", suffix |-> FALSE, lit |-> <<"v", "e", "s">>, rx |-> <<>>,
     forms |-> Forms(<<<<"v", "s", "i">>, <<"v", "s", "i">>, <<"v", "e", "s">>, <<"v", "s", "i">>, <<"v", "s", "i">>, <<"v", "s", "i'">>, <<"v", "s", "i">>, <<"v", "s", "i'">>, <<"v", "s", "e", "m">>, <<"v", "s", "i">>, <<"v", "s", "i">>, <<"v", "s", "e", "c", "h">>, <<"v", "s", "e", "m", "i">>>>)],
  (* line 848 *)
  [gender |-> "m", suffix |-> TRUE, lit |-> <<>>, rx |-> <<[cs |-> {"e"}, cap |-> TRUE], [cs |-> {"u"}, cap |-> FALSE], [cs |-> {"s"}, cap |-> FALSE]>>,
     forms |-> Forms(<<<<"0", "a">>, <<"0", "u", "/", "0", "o", "v", "i">>, <<"0", "a">>, <<"0", "e">>, <<"0", "u", "/", "0", "o", "v", "i">>, <<"0", "e", "m">>, <<"0", "o", "v", "e'">>, <<"0", "u~">>, <<"0", "u~", "m">>, <<"0", "y">>, <<"0", "o", "v", "e'">>, <<"0", "i'", "c", "h">>, <<"0", "y">>>>)],
  (* line 849 *)
  [gender |-> "m", suffix |-> TRUE, lit |-> <<>>, rx |-> <<[cs |-> {"i"}, cap |-> TRUE], [cs |-> {"u"}, cap |-> FALSE], [cs |-> {"s"}, cap |-> FALSE]>>,
     forms |-> Forms(<<<<"0", "a">>, <<"0", "u", "/", "0", "o", "v", "i">>, <<"0", "a">>, <<"0", "e">>, <<"0", "u", "/", "0", "o", "v", "i">>, <<"0", "e", "m">>, <<"0", "o", "v", "e'">>, <<"0", "u~">>, <<"0", "u~", "m">>, <<"0", "u", "s", "y">>, <<"0", "o", "v", "e'">>, <<"0", "i'", "c", "h">>, <<"0", "u", "s", "y">>>>)],
  (* line 850 *)
  [gender |-> "m", suffix |-> TRUE, lit |-> <<>>, rx |-> <<[cs |-> {"i"}, cap |-> TRUE], [cs |-> {"s"}, cap |-> FALSE]>>,
     forms |-> Forms(<<<<"0", "s", "e">>, <<"0", "s", "u", "/", "0", "s", "o", "v", "i">>, <<"0", "s", "e">>, <<"0", "s", "e", "/", "0", "s", "i">>, <<"0", "s", "u", "/", "0", "s", "o", "v", "i">>, <<"0", "s", "e", "m">>, <<"0", "s", "y", "/", "0", "s", "o", "v", "e'">>, <<"0", "s", "u~">>, <<"0", "s", "u~", "m">>, <<"0", "s", "y">>, <<"0", "s", "y", "/", "0", "o", "v", "e'">>, <<"0", "e", "c", "h">>, <<"0", "s", "y">>>>)],
  (* line 852 *)
  [gender |-> "m", suffix |-> FALSE, lit |-> <<"v", "y'", "t", "r", "u", "s">>, rx |-> <<>>,
     forms |-> Forms(<<<<"v", "y'", "t", "r", "u", "s", "u">>, <<"v", "y'", "t", "r", "u", "s", "u">>, <<"v", "y'", "t", "r", "u", "s">>, <<"v", "y'", "t", "r", "u", "s", "e">>, <<"v", "y'", "t", "r", "u", "s", "u">>, <<"v", "y'", "t", "r", "u", "s", "e", "m">>, <<"v", "y'", "t", "r", "u", "s", "y">>, <<"v", "y'", "t", "r", "u", "s", "u~">>, <<"v", "y'", "t", "r", "u", "s", "u~", "m">>, <<"v", "y'", "t", "r", "u", "s", "y">>, <<"v", "y'", "t", "r", "u", "s", "y">>, <<"v", "y'", "t", "r", "u", "s", "e", "c", "h">>, <<"v", "y'", "t", "r", "u", "s", "y">>>>)],
  (* line 853 *)
  [gender |-> "m", suffix |-> FALSE, lit |-> <<"t", "r", "u", "s">>, rx |-> <<>>,
     forms |-> Forms(<<<<"t", "r", "u", "s", "u">>, <<"t", "r", "u", "s", "u">>, <<"t", "r", "u", "s">>, <<"t", "r", "u", "s", "e">>, <<"t", "r", "u", "s", "u">>, <<"t", "r", "u", "s", "e", "m">>, <<"t", "r", "u", "s", "y">>, <<"t", "r", "u", "s", "u~">>, <<"t", "r", "u", "s", "u~", "m">>, <<"t", "r", "u", "s", "y">>, <<"t", "r", "u", "s", "y">>, <<"t", "r", "u", "s", "e", "c", "h">>, <<"t", "r", "u", "s", "y">>>>)],
  (* line 855 *)
  [gender |-> "m", suffix |-> TRUE, lit |-> <<>>, rx |-> <<[cs |-> {"a", "e", "i", "o", "u", "m", "p", "t", "s"}, cap |-> TRUE], [cs |-> {"l", "n", "m", "r", "k", "t", "p"}, cap |-> TRUE], [cs |-> {"u"}, cap |-> FALSE], [cs |-> {"s"}, cap |-> FALSE]>>,
     forms |-> Forms(<<<<"1", "0", "u", "/", "1", "0", "a">>, <<"1", "0", "u", "/", "1", "0", "o", "v", "i">>, <<"1", "0", "u", "s", "/", "1", "0", "a">>, <<"1", "0", "e">>, <<"1", "0", "u", "/", "1", "0", "o", "v", "i">>, <<"1", "0", "e", "m">>, <<"1", "0", "y", "/", "1", "0", "o", "v", "e'">>, <<"1", "0", "u~">>, <<"1", "0", "u~", "m">>, <<"1", "0", "y">>, <<"1", "0", "y", "/", "1", "0", "o", "v", "e'">>, <<"1", "0", "e", "c", "h">>, <<"1", "0", "y">>>>)],
  (* line 856 *)
  [gender |-> "s", suffix |-> TRUE, lit |-> <<>>, rx |-> <<[cs |-> {"l"}, cap |-> TRUE], [cs |-> {"u"}, cap |-> FALSE], [cs |-> {"m"}, cap |-> FALSE]>>,
     forms |-> Forms(<<<<"0", "a">>, <<"0", "u">>, <<"0", "u", "m">>, <<"0", "u", "m">>, <<"0", "u">>, <<"0", "e", "m">>, <<"0", "a">>, <<"0">>, <<"0", "u~", "m">>, <<"0", "a">>, <<"0", "a">>, <<"0", "e", "c", "h">>, <<"0", "y">>>>)],
  (* line 857 *)
  [gender |-> "s", suffix |-> TRUE, lit |-> <<>>, rx |-> <<[cs |-> {"k"}, cap |-> TRUE], [cs |-> {"u"}, cap |-> FALSE], [cs |-> {"m"}, cap |-> FALSE]>>,
     forms |-> Forms(<<<<"0", "a">>, <<"0", "u">>, <<"0", "u", "m">>, <<"0", "u", "m">>, <<"0", "u">>, <<"0", "e", "m">>, <<"0", "a">>, <<"0">>, <<"0", "u~", "m">>, <<"0", "a">>, <<"0", "a">>, <<"0", "c", "i'", "c", "h">>, <<"0", "y">>>>)],
  (* line 858 *)
  [gender |-> "s", suffix |-> TRUE, lit |-> <<>>, rx |-> <<[cs |-> {"i"}, cap |-> TRUE], [cs |-> {"u"}, cap |-> FALSE], [cs |-> {"m"}, cap |-> FALSE]>>,
     forms |-> Forms(<<<<"0", "a">>, <<"0", "u">>, <<"0", "u", "m">>, <<"0", "u", "m">>, <<"0", "u">>, <<"0", "e", "m">>, <<"0", "a">>, <<"0", "i'">>, <<"0", "u~", "m">>, <<"0", "a">>, <<"0", "a">>, <<"0", "i", "i'", "c", "h">>, <<"0", "y">>>>)],
  (* line 859 *)
  [gender |-> "s", suffix |-> TRUE, lit |-> <<>>, rx |-> <<[cs |-> {"i"}, cap |-> FALSE], [cs |-> {"o"}, cap |-> FALSE]>>,
     forms |-> Forms(<<<<"0", "a">>, <<"0", "u">>, <<"0">>, <<"0">>, <<"0", "u">>, <<"0", "e", "m">>, <<"0", "a">>, <<"0", "i'">>, <<"0", "u~", "m">>, <<"0", "a">>, <<"0", "a">>, <<"0", "i", "i'", "c", "h">>, <<"0", "y">>>>)],
  (* line 860 *)
  [gender |-> "m", suffix |-> TRUE, lit |-> <<>>, rx |-> <<[cs |-> {"a", "e", "i", "o", "u", "y", "a'", "e'", "i'", "o'", "u'", "y'"}, cap |-> TRUE], [cs |-> {"r"}, cap |-> FALSE]>>,
     forms |-> Forms(<<<<"0", "r", "u", "/", "0", "r", "a">>, <<"0", "r", "u", "/", "0", "r", "o", "v", "i">>, <<"0", "r", "/", "0", "r", "a">>, <<"0", "r", "e">>, <<"0", "r", "u", "/", "0", "r", "o", "v", "i">>, <<"0", "r", "e", "m">>, <<"0", "r", "y", "/", "0", "r", "o", "v", "e'">>, <<"0", "r", "u~">>, <<"0", "r", "u~", "m">>, <<"0", "r", "y">>, <<"0", "r", "y", "/", "0", "r", "o", "v", "e'">>, <<"0", "r", "e", "c", "h">>, <<"0", "r", "y">>>>)],
  (* line 861 *)
  [gender |-> "m", suffix |-> TRUE, lit |-> <<>>, rx |-> <<[cs |-> {"r"}, cap |-> FALSE]>>,
     forms |-> Forms(<<<<"r", "u", "/", "r", "a">>, <<"r", "u", "/", "r", "o", "v", "i">>, <<"r", "/", "r", "a">>, <<"r^", "e">>, <<"r", "u", "/", "r", "o", "v", "i">>, <<"r", "e", "m">>, <<"r", "y", "/", "r", "o", "v", "e'">>, <<"r", "u~">>, <<"r", "u~", "m">>, <<"r", "y">>, <<"r", "y", "/", "r", "o", "v", "e'">>, <<"r", "e", "c", "h">>, <<"r", "y">>>>)],
  (* line 862 *)
  [gender |-> "m", suffix |-> TRUE, lit |-> <<>>, rx |-> <<[cs |-> {"m", "n", "p"}, cap |-> TRUE], [cs |-> {"e"}, cap |-> FALSE], [cs |-> {"n"}, cap |-> FALSE]>>,
     forms |-> Forms(<<<<"0", "e", "n", "u", "/", "0", "e", "n", "a">>, <<"0", "e", "n", "u", "/", "0", "e", "n", "o", "v", "i">>, <<"0", "e", "n", "/", "0", "n", "a">>, <<"0", "e", "n", "e">>, <<"0", "e", "n", "u", "/", "0", "e", "n", "o", "v", "i">>, <<"0", "e", "n", "e", "m">>, <<"0", "e", "n", "y", "/", "0", "e", "n", "o", "v", "e'">>, <<"0", "e", "n", "u~">>, <<"0", "e", "n", "u~", "m">>, <<"0", "e", "n", "y">>, <<"0", "e", "n", "y", "/", "0", "e", "n", "o", "v", "e'">>, <<"0", "e", "n", "e", "c", "h">>, <<"0", "e", "n", "y">>>>)],
  (* line 863 *)
  [gender |-> "m", suffix |-> TRUE, lit |-> <<>>, rx |-> <<[cs |-> {"b", "c", "c^", "d", "s", "t", "v", "z"}, cap |-> TRUE], [cs |-> {"e"}, cap |-> FALSE], [cs |-> {"n"}, cap |-> FALSE]>>,
     forms |-> Forms(<<<<"0", "n", "u", "/", "0", "n", "a">>, <<"0", "n", "u", "/", "0", "n", "o", "v", "i">>, <<"0", "e", "n", "/", "0", "n", "a">>, <<"0", "n", "e">>, <<"0", "n", "u", "/", "0", "n", "o", "v", "i">>, <<"0", "n", "e", "m">>, <<"0", "n", "y", "/", "0", "n", "o", "v", "e'">>, <<"0", "n", "u~">>, <<"0", "n", "u~", "m">>, <<"0", "n", "y">>, <<"0", "n", "y", "/", "0", "n", "o", "v", "e'">>, <<"0", "n", "e", "c", "h">>, <<"0", "n", "y">>>>)],
  (* line 864 *)
  [gender |-> "m", suffix |-> TRUE, lit |-> <<>>, rx |-> <<[cs |-> {"d", "g", "l", "m", "n", "p", "b", "t", "v", "z", "s"}, cap |-> TRUE]>>,
     forms |-> Forms(<<<<"0", "u", "/", "0", "a">>, <<"0", "u", "/", "0", "o", "v", "i">>, <<"0", "/", "0", "a">>, <<"0", "e">>, <<"0", "u", "/", "0", "o", "v", "i">>, <<"0", "e", "m">>, <<"0", "y", "/", "0", "o", "v", "e'">>, <<"0", "u~">>, <<"0", "u~", "m">>, <<"0", "y">>, <<"0", "y", "/", "0", "o", "v", "e'">>, <<"0", "e", "c", "h">>, <<"0", "y">>>>)],
  (* line 865 *)
  [gender |-> "m", suffix |-> TRUE, lit |-> <<>>, rx |-> <<[cs |-> {"x"}, cap |-> TRUE]>>,
     forms |-> Forms(<<<<"0", "u", "/", "0", "e">>, <<"0", "u", "/", "0", "o", "v", "i">>, <<"0", "/", "0", "e">>, <<"0", "i">>, <<"0", "u", "/", "0", "o", "v", "i">>, <<"0", "e", "m">>, <<"0", "y", "/", "0", "o", "v", "e'">>, <<"0", "u~">>, <<"0", "u~", "m">>, <<"0", "y">>, <<"0", "y", "/", "0", "o", "v", "e'">>, <<"0", "e", "c", "h">>, <<"0", "y">>>>)],
  (* line 867 *)
  [gender |-> "m", suffix |-> FALSE, lit |-> <<"s", "e", "k">>, rx |-> <<>>,
     forms |-> Forms(<<<<"s", "e", "k", "u", "/", "s", "e", "k", "a">>, <<"s", "e", "k", "u", "/", "s", "e", "k", "o", "v", "i">>, <<"s", "e", "k", "/", "s", "e", "k", "a">>, <<"s", "e", "k", "u">>, <<"s", "e", "k", "u", "/", "s", "e", "k", "o", "v", "i">>, <<"s", "e", "k", "e", "m">>, <<"s", "e", "k", "y", "/", "s", "e", "k", "o", "v", "e'">>, <<"s", "e", "k", "u~">>, <<"s", "e", "k", "u~", "m">>, <<"s", "e", "k", "y">>, <<"s", "e", "k", "y", "/", "s", "e", "k", "o", "v", "e'">>, <<"s", "e", "c", "i'", "c", "h">>, <<"s", "e", "k", "y">>>>)],
  (* line 868 *)
  [gender |-> "m", suffix |-> FALSE, lit |-> <<"v", "y'", "s", "e", "k">>, rx |-> <<>>,
     forms |-> Forms(<<<<"v", "y'", "s", "e", "k", "u", "/", "v", "y'", "s", "e", "k", "a">>, <<"v", "y'", "s", "e", "k", "u", "/", "v", "y'", "s", "e", "k", "o", "v", "i">>, <<"v", "y'", "s", "e", "k", "/", "v", "y'", "s", "e", "k", "a">>, <<"v", "y'", "s", "e", "k", "u">>, <<"v", "y'", "s", "e", "k", "u", "/", "v", "y'", "s", "e", "k", "o", "v", "i">>, <<"v", "y'", "s", "e", "k", "e", "m">>, <<"v", "y'", "s", "e", "k", "y", "/", "v", "y'", "s", "e", "k", "o", "v", "e'">>, <<"v", "y'", "s", "e", "k", "u~">>, <<"v", "y'", "s", "e", "k", "u~", "m">>, <<"v", "y'", "s", "e", "k", "y">>, <<"v", "y'", "s", "e", "k", "y", "/", "v", "y'", "s", "e", "k", "o", "v", "e'">>, <<"v", "y'", "s", "e", "c", "i'", "c", "h">>, <<"v", "y'", "s", "e", "k", "y">>>>)],
  (* line 869 *)
  [gender |-> "m", suffix |-> FALSE, lit |-> <<"z", "a'", "s", "e", "k">>, rx |-> <<>>,
     forms |-> Forms(<<<<"z", "a'", "s", "e", "k", "u", "/", "z", "a'", "s", "e", "k", "a">>, <<"z", "a'", "s", "e", "k", "u", "/", "z", "a'", "s", "e", "k", "o", "v", "i">>, <<"z", "a'", "s", "e", "k", "/", "z", "a'", "s", "e", "k", "a">>, <<"z", "a'", "s", "e", "k", "u">>, <<"z", "a'", "s", "e", "k", "u", "/", "z", "a'", "s", "e", "k", "o", "v", "i">>, <<"z", "a'", "s", "e", "k", "e", "m">>, <<"z", "a'", "s", "e", "k", "y", "/", "z", "a'", "s", "e", "k", "o", "v", "e'">>, <<"z", "a'", "s", "e", "k", "u~">>, <<"z", "a'", "s", "e", "k", "u~", "m">>, <<"z", "a'", "s", "e", "k", "y">>, <<"z", "a'", "s", "e", "k", "y", "/", "z", "a'", "s", "e", "k", "o", "v", "e'">>, <<"z", "a'", "s", "e", "c", "i'", "c", "h">>, <<"z", "a'", "s", "e", "k", "y">>>>)],
  (* line 870 *)
  [gender |-> "m", suffix |-> FALSE, lit |-> <<"p", "r", "u~", "s", "e", "k">>, rx |-> <<>>,
     forms |-> Forms(<<<<"p", "r", "u~", "s", "e", "k", "u", "/", "p", "r", "u~", "s", "e", "k", "a">>, <<"p", "r", "u~", "s", "e", "k", "u", "/", "p", "r", "u~", "s", "e", "k", "o", "v", "i">>, <<"p", "r", "u~", "s", "e", "k", "/", "p", "r", "u~", "s", "e", "k", "a">>, <<"p", "r", "u~", "s", "e", "k", "u">>, <<"p", "r", "u~", "s", "e", "k", "u", "/", "p", "r", "u~", "s", "e", "k", "o", "v", "i">>, <<"p", "r", "u~", "s", "e", "k", "e", "m">>, <<"p", "r", "u~", "s", "e", "k", "y", "/", "p", "r", "u~", "s", "e", "k", "o", "v", "e'">>, <<"p", "r", "u~", "s", "e", "k", "u~">>, <<"v", "y'", "s", "e", "k", "u~", "m">>, <<"p", "r", "u~", "s", "e", "k", "y">>, <<"p", "r", "u~", "s", "e", "k", "y", "/", "p", "r", "u~", "s", "e", "k", "o", "v", "e'">>, <<"p", "r", "u~", "s", "e", "c", "i'", "c", "h">>, <<"p", "r", "u~", "s", "e", "k", "y">>>>)],
  (* line 872 *)
  [gender |-> "m", suffix |-> TRUE, lit |-> <<>>, rx |-> <<[cs |-> {"c", "c^", "s^", "z^", "d", "n", "n^", "m", "p", "b", "r", "s", "t", "v", "z"}, cap |-> TRUE], [cs |-> {"e"}, cap |-> FALSE], [cs |-> {"k"}, cap |-> FALSE]>>,
     forms |-> Forms(<<<<"0", "k", "u", "/", "0", "k", "a">>, <<"0", "k", "u", "/", "0", "k", "o", "v", "i">>, <<"0", "e", "k", "/", "0", "k", "a">>, <<"0", "k", "u">>, <<"0", "k", "u", "/", "0", "k", "o", "v", "i">>, <<"0", "k", "e", "m">>, <<"0", "k", "y", "/", "0", "k", "o", "v", "e'">>, <<"0", "k", "u~">>, <<"0", "k", "u~", "m">>, <<"0", "k", "y">>, <<"0", "k", "y", "/", "0", "k", "o", "v", "e'">>, <<"0", "c", "i'", "c", "h">>, <<"0", "k", "y">>>>)],
  (* line 873 *)
  [gender |-> "m", suffix |-> TRUE, lit |-> <<>>, rx |-> <<[cs |-> {"k"}, cap |-> TRUE]>>,
     forms |-> Forms(<<<<"0", "u", "/", "0", "a">>, <<"0", "u", "/", "0", "o", "v", "i">>, <<"0", "/", "0", "a">>, <<"0", "u">>, <<"0", "u", "/", "0", "o", "v", "i">>, <<"0", "e", "m">>, <<"0", "y", "/", "0", "o", "v", "e'">>, <<"0", "u~">>, <<"0", "u~", "m">>, <<"0", "y">>, <<"0", "y", "/", "0", "o", "v", "e'">>, <<"c", "i'", "c", "h">>, <<"0", "y">>>>)],
  (* line 874 *)
  [gender |-> "m", suffix |-> TRUE, lit |-> <<>>, rx |-> <<[cs |-> {"c"}, cap |-> FALSE], [cs |-> {"h"}, cap |-> FALSE]>>,
     forms |-> Forms(<<<<"c", "h", "u", "/", "c", "h", "a">>, <<"c", "h", "u", "/", "c", "h", "o", "v", "i">>, <<"c", "h", "/", "c", "h", "a">>, <<"c", "h", "u", "/", "c", "h", "a">>, <<"c", "h", "u", "/", "c", "h", "o", "v", "i">>, <<"c", "h", "e", "m">>, <<"c", "h", "y", "/", "c", "h", "o", "v", "e'">>, <<"c", "h", "u~">>, <<"c", "h", "u~", "m">>, <<"c", "h", "y">>, <<"c", "h", "y", "/", "c", "h", "o", "v", "e'">>, <<"s^", "i'", "c", "h">>, <<"c", "h", "y">>>>)],
  (* line 875 *)
  [gender |-> "m", suffix |-> TRUE, lit |-> <<>>, rx |-> <<[cs |-> {"h"}, cap |-> TRUE]>>,
     forms |-> Forms(<<<<"0", "u", "/", "0", "a">>, <<"0", "u", "/", "0", "o", "v", "i">>, <<"0", "/", "0", "a">>, <<"0", "u">>, <<"0", "u", "/", "0", "o", "v", "i">>, <<"0", "e", "m">>, <<"0", "y", "/", "0", "o", "v", "e'">>, <<"0", "u~">>, <<"0", "u~", "m">>, <<"0", "y">>, <<"0", "y", "/", "0", "o", "v", "e'">>, <<"z", "i'", "c", "h">>, <<"0", "y">>>>)],
  (* line 876 *)
  [gender |-> "m", suffix |-> TRUE, lit |-> <<>>, rx |-> <<[cs |-> {"e"}, cap |-> FALSE], [cs |-> {"m", "n", "z"}, cap |-> TRUE]>>,
     forms |-> Forms(<<<<"0", "u", "/", "0", "a">>, <<"0", "u", "/", "0", "o", "v", "i">>, <<"e", "0", "/", "e", "0", "a">>, <<"0", "e">>, <<"0", "u", "/", "0", "o", "v", "i">>, <<"0", "e", "m">>, <<"0", "y", "/", "0", "o", "v", "e'">>, <<"0", "u~">>, <<"0", "u~", "m">>, <<"0", "y">>, <<"0", "y", "/", "0", "o", "v", "e'">>, <<"0", "e", "c", "h">>, <<"0", "y">>>>)],
  (* line 877 *)
  [gender |-> "m", suffix |-> TRUE, lit |-> <<>>, rx |-> <<[cs |-> {"e"}, cap |-> FALSE], [cs |-> {"c"}, cap |-> FALSE]>>,
     forms |-> Forms(<<<<"c", "e">>, <<"c", "i", "/", "c", "o", "v", "i">>, <<"e", "c", "/", "c", "e">>, <<"c^", "e">>, <<"c", "i", "/", "c", "o", "v", "i">>, <<"c", "e", "m">>, <<"c", "e", "/", "c", "o", "v", "e'">>, <<"c", "u~">>, <<"c", "u~", "m">>, <<"c", "e">>, <<"c", "e", "/", "c", "o", "v", "e'">>, <<"c", "i'", "c", "h">>, <<"c", "i">>>>)],
  (* line 878 *)
  [gender |-> "m", suffix |-> TRUE, lit |-> <<>>, rx |-> <<[cs |-> {"c", "c^", "d^", "s^", "n^", "r^", "t^", "z^"}, cap |-> TRUE]>>,
     forms |-> Forms(<<<<"0", "e">>, <<"0", "i", "/", "0", "o", "v", "i">>, <<"0", "e">>, <<"0", "i">>, <<"0", "i", "/", "0", "o", "v", "i">>, <<"0", "e", "m">>, <<"0", "e", "/", "0", "o", "v", "e'">>, <<"0", "u~">>, <<"0", "u~", "m">>, <<"0", "e">>, <<"0", "e", "/", "0", "o", "v", "e'">>, <<"0", "i'", "c", "h">>, <<"0", "i">>>>)],
  (* line 879 *)
  [gender |-> "m", suffix |-> TRUE, lit |-> <<>>, rx |-> <<[cs |-> {"o"}, cap |-> FALSE], [cs |-> {"j"}, cap |-> FALSE]>>,
     forms |-> Forms(<<<<"o", "j", "e">>, <<"o", "j", "i", "/", "o", "j", "o", "v", "i">>, <<"o", "j", "/", "o", "j", "e">>, <<"o", "j", "i">>, <<"o", "j", "i", "/", "o", "j", "o", "v", "i">>, <<"o", "j", "e", "m">>, <<"o", "j", "e", "/", "o", "j", "o", "v", "e'">>, <<"o", "j", "u~">>, <<"o", "j", "u~", "m">>, <<"o", "j", "e">>, <<"o", "j", "e", "/", "o", "j", "o", "v", "e'">>, <<"o", "j", "i'", "c", "h">>, <<"o", "j", "i">>>>)],
  (* line 880 *)
  [gender |-> "m", suffix |-> TRUE, lit |-> <<>>, rx |-> <<[cs |-> {"g", "h"}, cap |-> TRUE], [cs |-> {"a"}, cap |-> FALSE]>>,
     forms |-> Forms(<<<<"0", "y">>, <<"0", "o", "v", "i">>, <<"0", "u">>, <<"0", "o">>, <<"0", "o", "v", "i">>, <<"0", "o", "u">>, <<"0", "o", "v", "e'">>, <<"0", "u~">>, <<"0", "u~", "m">>, <<"0", "y">>, <<"0", "o", "v", "e'">>, <<"z", "i'", "c", "h">>, <<"0", "y">>>>)],
  (* line 881 *)
  [gender |-> "m", suffix |-> TRUE, lit |-> <<>>, rx |-> <<[cs |-> {"k"}, cap |-> TRUE], [cs |-> {"a"}, cap |-> FALSE]>>,
     forms |-> Forms(<<<<"0", "y">>, <<"0", "o", "v", "i">>, <<"0", "u">>, <<"0", "o">>, <<"0", "o", "v", "i">>, <<"0", "o", "u">>, <<"0", "o", "v", "e'">>, <<"0", "u~">>, <<"0", "u~", "m">>, <<"0", "y">>, <<"0", "o", "v", "e'">>, <<"c", "i'", "c", "h">>, <<"0", "y">>>>)],
  (* line 882 *)
  [gender |-> "m", suffix |-> TRUE, lit |-> <<>>, rx |-> <<[cs |-> {"a"}, cap |-> FALSE]>>,
     forms |-> Forms(<<<<"y">>, <<"o", "v", "i">>, <<"u">>, <<"o">>, <<"o", "v", "i">>, <<"o", "u">>, <<"o", "v", "e'">>, <<"u~">>, <<"u~", "m">>, <<"y">>, <<"o", "v", "e'">>, <<"e", "c", "h">>, <<"y">>>>)],
  (* line 883 *)
  [gender |-> "f", suffix |-> TRUE, lit |-> <<>>, rx |-> <<[cs |-> {"l"}, cap |-> FALSE]>>,
     forms |-> Forms(<<<<"l", "e">>, <<"l", "i">>, <<"l">>, <<"l", "i">>, <<"l", "i">>, <<"l", "i'">>, <<"l", "e">>, <<"l", "i'">>, <<"l", "i'", "m">>, <<"l", "e">>, <<"l", "e">>, <<"l", "i'", "c", "h">>, <<"l", "e", "m", "i">>>>)],
  (* line 885 *)
  [gender |-> "f", suffix |-> TRUE, lit |-> <<>>, rx |-> <<[cs |-> {"i'"}, cap |-> FALSE]>>,
     forms |-> Forms(<<<<"i'">>, <<"i'">>, <<"i'">>, <<"i'">>, <<"i'">>, <<"i'">>, <<"i'">>, <<"i'", "c", "h">>, <<"i'", "m">>, <<"i'">>, <<"i'">>, <<"i'", "c", "h">>, <<"i'", "m", "i">>>>)],
  (* line 887 *)
  [gender |-> "f", suffix |-> TRUE, lit |-> <<>>, rx |-> <<[cs |-> {"j", "r^"}, cap |-> TRUE]>>,
     forms |-> Forms(<<<<"0", "e">>, <<"0", "i">>, <<"0">>, <<"0", "i">>, <<"0", "i">>, <<"0", "i'">>, <<"0", "e">>, <<"0", "i'">>, <<"0", "i'", "m">>, <<"0", "e">>, <<"0", "e">>, <<"0", "i'", "c", "h">>, <<"0", "e", "m", "i">>>>)],
  (* line 888 *)
  [gender |-> "f", suffix |-> TRUE, lit |-> <<>>, rx |-> <<[cs |-> {"c^"}, cap |-> TRUE]>>,
     forms |-> Forms(<<<<"0", "i">>, <<"0", "i">>, <<"0">>, <<"0", "i">>, <<"0", "i">>, <<"0", "i'">>, <<"0", "i">>, <<"0", "i'">>, <<"0", "i'", "m">>, <<"0", "i">>, <<"0", "i">>, <<"0", "i'", "c", "h">>, <<"0", "m", "i">>>>)],
  (* line 889 *)
  [gender |-> "f", suffix |-> TRUE, lit |-> <<>>, rx |-> <<[cs |-> {"s^"}, cap |-> TRUE]>>,
     forms |-> Forms(<<<<"0", "i">>, <<"0", "i">>, <<"0">>, <<"0", "i">>, <<"0", "i">>, <<"0", "i'">>, <<"0", "i">>, <<"0", "i'">>, <<"0", "i'", "m">>, <<"0", "i">>, <<"0", "i">>, <<"0", "i'", "c", "h">>, <<"0", "e", "m", "i">>>>)],
  (* line 890 *)
  [gender |-> "s", suffix |-> TRUE, lit |-> <<>>, rx |-> <<[cs |-> {"s", "l", "j", "r^", "n^"}, cap |-> TRUE], [cs |-> {"e"}, cap |-> FALSE]>>,
     forms |-> Forms(<<<<"0", "e", "t", "e">>, <<"0", "e", "t", "i">>, <<"0", "e">>, <<"0", "e">>, <<"0", "e", "t", "i">>, <<"0", "e", "t", "e", "m">>, <<"0", "a", "t", "a">>, <<"0", "a", "t">>, <<"0", "a", "t", "u~", "m">>, <<"0", "a", "t", "a">>, <<"0", "a", "t", "a">>, <<"0", "a", "t", "e", "c", "h">>, <<"0", "a", "t", "y">>>>)],
  (* line 891 *)
  [gender |-> "m", suffix |-> TRUE, lit |-> <<>>, rx |-> <<[cs |-> {"j"}, cap |-> FALSE]>>,
     forms |-> Forms(<<<<"j", "e">>, <<"j", "i">>, <<"j">>, <<"j", "i">>, <<"j", "i">>, <<"j", "e", "m">>, <<"j", "e", "/", "j", "o", "v", "e'">>, <<"j", "u~">>, <<"j", "u~", "m">>, <<"j", "e">>, <<"j", "e", "/", "j", "o", "v", "e'">>, <<"j", "i'", "c", "h">>, <<"j", "i">>>>)],
  (* line 892 *)
  [gender |-> "m", suffix |-> TRUE, lit |-> <<>>, rx |-> <<[cs |-> {"f"}, cap |-> FALSE]>>,
     forms |-> Forms(<<<<"f", "a">>, <<"f", "u", "/", "f", "o", "v", "i">>, <<"f", "/", "f", "a">>, <<"f", "e">>, <<"f", "u", "/", "f", "o", "v", "i">>, <<"f", "e", "m">>, <<"f", "y", "/", "f", "o", "v", "e'">>, <<"f", "u~">>, <<"f", "u~", "m">>, <<"f", "y">>, <<"f", "y", "/", "f", "o", "v", "e'">>, <<"f", "e", "c", "h">>, <<"f", "y">>>>)],
  (* line 893 *)
  [gender |-> "m", suffix |-> TRUE, lit |-> <<>>, rx |-> <<[cs |-> {"i'"}, cap |-> FALSE]>>,
     forms |-> Forms(<<<<"i'", "h", "o">>, <<"i'", "m", "u">>, <<"i'", "h", "o">>, <<"i'">>, <<"i'", "m", "u">>, <<"i'", "m">>, <<"i'">>, <<"i'", "c", "h">>, <<"i'", "m">>, <<"i'">>, <<"i'">>, <<"i'", "c", "h">>, <<"i'", "m", "i">>>>)],
  (* line 894 *)
  [gender |-> "m", suffix |-> TRUE, lit |-> <<>>, rx |-> <<[cs |-> {"g"}, cap |-> FALSE], [cs |-> {"o"}, cap |-> FALSE]>>,
     forms |-> Forms(<<<<"a">>, <<"g", "o", "v", "i">>, <<"g", "a">>, <<"g", "a">>, <<"g", "o", "v", "i">>, <<"g", "e", "m">>, <<"g", "o", "v", "e'">>, <<"g", "u~">>, <<"g", "u~", "m">>, <<"g", "y">>, <<"g", "o", "v", "e'">>, <<"z", "i'", "c", "h">>, <<"g", "y">>>>)],
  (* line 895 *)
  [gender |-> "m", suffix |-> TRUE, lit |-> <<>>, rx |-> <<[cs |-> {"o"}, cap |-> FALSE]>>,
     forms |-> Forms(<<<<"a">>, <<"o", "v", "i">>, <<"a">>, <<"o">>, <<"o", "v", "i">>, <<"e", "m">>, <<"o", "v", "e'">>, <<"u~">>, <<"u~", "m">>, <<"y">>, <<"o", "v", "e'">>, <<"e", "c", "h">>, <<"y">>>>)],
  (* line 896 *)
  [gender |-> "", suffix |-> TRUE, lit |-> <<>>, rx |-> <<[cs |-> {"t", "p"}, cap |-> TRUE], [cs |-> {"y"}, cap |-> FALSE]>>,
     forms |-> Forms(<<<<>>, <<>>, <<>>, <<>>, <<>>, <<>>, <<"0", "y">>, <<"0">>, <<"0", "u~", "m">>, <<"0", "y">>, <<"0", "y">>, <<"0", "e", "c", "h">>, <<"0", "a", "m", "i">>>>)],
  (* line 897 *)
  [gender |-> "", suffix |-> TRUE, lit |-> <<>>, rx |-> <<[cs |-> {"k"}, cap |-> TRUE], [cs |-> {"y"}, cap |-> FALSE]>>,
     forms |-> Forms(<<<<>>, <<>>, <<>>, <<>>, <<>>, <<>>, <<"0", "y">>, <<"e", "0">>, <<"0", "a'", "m">>, <<"0", "y">>, <<"0", "y">>, <<"0", "a'", "c", "h">>, <<"0", "a", "m", "i">>>>)],
  (* line 898 *)
  [gender |-> "f", suffix |-> TRUE, lit |-> <<>>, rx |-> <<[cs |-> {"a"}, cap |-> FALSE], [cs |-> {"r"}, cap |-> FALSE]>>,
     forms |-> Forms(<<<<"a", "r", "y">>, <<"a", "r^", "e">>, <<"a", "r">>, <<"a", "r">>, <<"a", "r">>, <<"a", "r">>, <<"a", "r", "y">>, <<"a", "r">>, <<"a", "r", "a'", "m">>, <<"a", "r", "y">>, <<"a", "r", "y">>, <<"a", "r", "a'", "c", "h">>, <<"a", "r", "a", "m", "i">>>>)],
  (* line 899 *)
  [gender |-> "f", suffix |-> TRUE, lit |-> <<>>, rx |-> <<[cs |-> {"a"}, cap |-> FALSE], [cs |-> {"m"}, cap |-> FALSE]>>,
     forms |-> Forms(<<<<"a", "m">>, <<"a", "m">>, <<"a", "m">>, <<"a", "m">>, <<"a", "m">>, <<"a", "m">>, <<"a", "m">>, <<"a", "m">>, <<"a", "m">>, <<"a", "m">>, <<"a", "m">>, <<"a", "m">>, <<"a", "m">>>>)],
  (* line 900 *)
  [gender |-> "f", suffix |-> TRUE, lit |-> <<>>, rx |-> <<[cs |-> {"e"}, cap |-> FALSE], [cs |-> {"r"}, cap |-> FALSE]>>,
     forms |-> Forms(<<<<"e", "r">>, <<"e", "r">>, <<"e", "r">>, <<"e", "r">>, <<"e", "r">>, <<"e", "r">>, <<"e", "r", "y">>, <<"e", "r">>, <<"e", "r", "a'", "m">>, <<"e", "r", "y">>, <<"e", "r", "y">>, <<"e", "r", "a'", "c", "h">>, <<"e", "r", "a", "m", "i">>>>)],
  (* line 901 *)
  [gender |-> "m", suffix |-> TRUE, lit |-> <<>>, rx |-> <<[cs |-> {"o"}, cap |-> FALSE], [cs |-> {"e"}, cap |-> FALSE]>>,
     forms |-> Forms(<<<<"o", "e", "m", "a">>, <<"o", "e", "m", "o", "v", "i">>, <<"o", "e", "m", "a">>, <<"o", "e", "m", "e">>, <<"e", "m", "o", "v", "i">>, <<"e", "m", "e", "m">>, <<"o", "e", "m", "o", "v", "e'">>, <<"o", "e", "m", "u~">>, <<"o", "e", "m", "u~", "m">>, <<"o", "e", "m", "y">>, <<"o", "e", "m", "o", "v", "e'">>, <<"o", "e", "m", "e", "c", "h">>, <<"o", "e", "m", "y">>>>)],
  (* line 902 *)
  [gender |-> "f", suffix |-> TRUE, lit |-> <<>>, rx |-> <<[cs |-> {"a"}, cap |-> FALSE]>>,
     forms |-> Forms(<<<<"y">>, <<"e^">>, <<"u">>, <<"o">>, <<"e^">>, <<"o", "u">>, <<"y">>, <<>>, <<"a'", "m">>, <<"y">>, <<"y">>, <<"a'", "c", "h">>, <<"a", "m", "i">>>>)]
  >>

exceptions ==
  <<
  <<<<"b", "o", "r^", "e", "k">>, <<"b", "o", "r^", "k">>, <<"b", "o", "r^", "k", "a">>>>,
  <<<<"b", "o", "r^", "e", "k">>, <<"b", "o", "r^", "k">>, <<"b", "o", "r^", "k", "a">>>>,
  <<<<"c", "h", "l", "e", "b", "a">>, <<"c", "h", "l", "e", "b">>, <<"c", "h", "l", "e", "b", "a">>>>,
  <<<<"c", "h", "l", "e'", "b">>, <<"c", "h", "l", "e", "b">>, <<"c", "h", "l", "e", "b", "a">>>>,
  <<<<"c", "y", "k", "l", "u", "s">>, <<"c", "y", "k", "l">>, <<"c", "y", "k", "l", "u", "s">>>>,
  <<<<"d", "v", "u~", "r">>, <<"d", "v", "o", "r">>, <<"d", "v", "u~", "r">>>>,
  <<<<"d", "e'", "s^", "t^">>, <<"d", "e", "s^", "t^">>, <<"d", "e'", "s^", "t^">>>>,
  <<<<"d", "u~", "l">>, <<"d", "o", "l">>, <<"d", "u~", "l">>>>,
  <<<<"h", "a", "v", "e", "l">>, <<"h", "a", "v", "l">>, <<"h", "a", "v", "l", "a">>>>,
  <<<<"h", "n", "u~", "j">>, <<"h", "n", "o", "j">>, <<"h", "n", "u~", "j">>>>,
  <<<<"h", "u~", "l">>, <<"h", "o", "l", "e">>, <<"h", "u~", "l">>>>,
  <<<<"k", "a", "r", "e", "l">>, <<"k", "a", "r", "l">>, <<"k", "a", "r", "l", "a">>>>,
  <<<<"k", "e", "l">>, <<"k", "l">>, <<"k", "e", "l">>>>,
  <<<<"k", "o", "t", "e", "l">>, <<"k", "o", "t", "l">>, <<"k", "o", "t", "e", "l">>>>,
  <<<<"k", "u~", "n^">>, <<"k", "o", "n^">>, <<"k", "o", "n", "e^">>>>,
  <<<<"l", "u", "d", "e^", "k">>, <<"l", "u", "d^", "k">>, <<"l", "u", "d^", "k", "a">>>>,
  <<<<"l", "i'", "h">>, <<"l", "i", "h">>, <<"l", "i'", "h">>>>,
  <<<<"m", "r", "a'", "z">>, <<"m", "r", "a", "z">>, <<"m", "r", "a'", "z">>>>,
  <<<<"m", "y", "s^">>, <<"m", "y", "s^", "e">>, <<"m", "y", "s^">>>>,
  <<<<"n", "e", "h", "e", "t">>, <<"n", "e", "h", "t">>, <<"n", "e", "h", "e", "t">>>>,
  <<<<"o", "c", "e", "t">>, <<"o", "c", "t">>, <<"o", "c", "t", "a">>>>,
  <<<<"o", "s", "e", "l">>, <<"o", "s", "l">>, <<"o", "s", "l", "a">>>>,
  <<<<"p", "a", "v", "e", "l">>, <<"p", "a", "v", "l">>, <<"p", "a", "v", "l", "a">>>>,
  <<<<"p", "e", "s">>, <<"p", "s">>, <<"p", "s", "a">>>>,
  <<<<"p", "e", "n^">>, <<"p", "n^">>, <<"p", "e", "n^">>>>,
  <<<<"p", "o", "s", "e", "l">>, <<"p", "o", "s", "l">>, <<"p", "o", "s", "l", "a">>>>,
  <<<<"p", "r", "s", "t", "e", "n">>, <<"p", "r", "s", "t", "y'", "n", "e", "k">>, <<"p", "r", "s", "t", "y'", "n", "k", "u">>>>,
  <<<<"p", "y", "t", "e", "l">>, <<"p", "y", "t", "l">>, <<"p", "y", "t", "e", "l">>>>,
  <<<<"p", "u~", "l">>, <<"p", "u~", "l", "e">>, <<"p", "u~", "l", "i">>>>,
  <<<<"s", "k", "r", "y'", "s^">>, <<"s", "k", "r", "y'", "s^", "e">>, <<"s", "k", "r", "y'", "s^">>>>,
  <<<<"s", "m", "r", "t">>, <<"s", "m", "r", "t^">>, <<"s", "m", "r", "t">>>>,
  <<<<"s", "n", "i'", "h">>, <<"s", "n", "e^", "h">>, <<"s", "n", "i'", "h">>>>,
  <<<<"s", "o", "p", "e", "l">>, <<"s", "o", "p", "l">>, <<"s", "o", "p", "e", "l">>>>,
  <<<<"s", "t", "u", "p", "e", "n^">>, <<"s", "t", "u", "p", "n^">>, <<"s", "t", "u", "p", "e", "n^">>>>,
  <<<<"s", "t", "u~", "l">>, <<"s", "t", "o", "l">>, <<"s", "t", "u~", "l">>>>,
  <<<<"s", "v", "a", "t", "o", "z", "a'", "r^">>, <<"s", "v", "a", "t", "o", "z", "a'", "r^", "e">>, <<"s", "v", "a", "t", "o", "z", "a'", "r^">>>>,
  <<<<"s", "u~", "l">>, <<"s", "o", "l", "e">>, <<"s", "u~", "l">>>>,
  <<<<"t", "u~", "n^">>, <<"t", "u~", "n^", "e">>, <<"t", "u~", "n^">>>>,
  <<<<"v", "e", "s^">>, <<"v", "s^">>, <<"v", "e", "s^">>>>,
  <<<<"v", "i'", "t", "r">>, <<"v", "e^", "t", "r">>, <<"v", "i'", "t", "r">>>>,
  <<<<"v", "u~", "l">>, <<"v", "o", "l">>, <<"v", "o", "l", "a">>>>,
  <<<<"z", "e", "d^">>, <<"z", "d^">>, <<"z", "e", "d^">>>>,
  <<<<"z", "a'", "r^">>, <<"z", "a'", "r^", "e">>, <<"z", "a'", "r^">>>>,
  <<<<"u'", "c^", "e", "t">>, <<"u'", "c^", "t">>, <<"u'", "c^", "e", "t">>>>
  >>

forceM ==
  <<
  <<"a", "l", "e", "x", "e", "j">>,
  <<"a", "l", "e", "s^">>,
  <<"a", "l", "o", "i", "s">>,
  <<"a", "m", "b", "r", "o", "z^">>,
  <<"a", "m", "e", "t", "y", "s", "t">>,
  <<"a", "n", "d", "r", "e", "j">>,
  <<"a", "r", "e", "s", "t">>,
  <<"a", "z", "b", "e", "s", "t">>,
  <<"b", "a", "r", "t", "o", "l", "o", "m", "e^", "j">>,
  <<"b", "r", "u", "n", "o">>,
  <<"c", "h", "l", "a", "s", "t">>,
  <<"c", "h", "r^", "e", "s", "t">>,
  <<"c^", "a", "j">>,
  <<"c^", "a", "r", "o", "d^", "e", "j">>,
  <<"d", "a", "r", "m", "o", "d^", "e", "j">>,
  <<"d", "e", "s^", "t^">>,
  <<"d", "i", "s", "p", "l", "e", "j">>,
  <<"d", "o", "b", "r", "o", "d^", "e", "j">>,
  <<"d", "r", "a'", "k", "u", "l", "a">>,
  <<"d^", "e", "d", "a">>,
  <<"d^", "e", "j">>,
  <<"h", "o", "s", "t">>,
  <<"h", "r", "a", "n", "o", "s", "t", "a", "j">>,
  <<"h", "u", "g", "o">>,
  <<"h", "a'", "j">>,
  <<"i", "l", "j", "a">>,
  <<"i", "v", "o">>,
  <<"j", "i", "r", "k", "a">>,
  <<"j", "i", "r^", "i'">>,
  <<"k", "o", "l", "e", "g", "a">>,
  <<"k", "o", "l", "o", "d^", "e", "j">>,
  <<"k", "o", "m", "o", "r^", "i'">>,
  <<"k", "o", "n", "t", "e", "s", "t">>,
  <<"k", "o", "n^">>,
  <<"k", "v", "i", "d", "o">>,
  <<"k", "r^", "i'", "z^">>,
  <<"l", "a", "n", "y'", "z^">>,
  <<"l", "u", "k", "a'", "s^">>,
  <<"m", "a", "t^", "e", "j">>,
  <<"m", "i", "k", "o", "l", "a'", "s^">>,
  <<"m", "i", "k", "u", "l", "a'", "s^">>,
  <<"m", "l", "u", "v", "k", "a">>,
  <<"m", "o", "s", "t">>,
  <<"m", "o", "t", "o", "r", "e", "s", "t">>,
  <<"m", "o", "u", "l", "a">>,
  <<"m", "u", "z^">>,
  <<"n", "o", "e">>,
  <<"o", "n", "d", "r^", "e", "j">>,
  <<"o", "t", "o">>,
  <<"o", "t", "t", "o">>,
  <<"p", "a", "p", "e", "z^">>,
  <<"p", "e", "p", "a">>,
  <<"p", "e", "n^">>,
  <<"p", "l", "a", "s", "t">>,
  <<"p", "o", "d", "k", "o", "n", "i'">>,
  <<"p", "o", "l", "d", "a">>,
  <<"p", "r", "o", "d", "e", "j">>,
  <<"p", "r", "o", "t", "e", "s", "t">>,
  <<"r", "e", "s", "t">>,
  <<"s", "a", "s^", "a">>,
  <<"s", "l", "e", "d^">>,
  <<"s", "l", "o", "u", "h", "a">>,
  <<"s", "l", "u", "h", "a">>,
  <<"s", "p", "r", "e", "j">>,
  <<"s", "t", "r", "e", "j", "d", "a">>,
  <<"s", "t", "u", "p", "e", "n^">>,
  <<"s", "t^", "e", "z^", "e", "n^">>,
  <<"s^", "m", "o", "u", "l", "a">>,
  <<"t", "e", "r", "m", "o", "p", "l", "a", "s", "t">>,
  <<"t", "e", "s", "t">>,
  <<"t", "o", "b", "i", "a'", "s^">>,
  <<"t", "o", "m", "a'", "s^">>,
  <<"t", "r", "e", "s", "t">>,
  <<"t", "a'", "t", "a">>,
  <<"v", "e", "l", "m", "o", "z^">>,
  <<"v", "y'", "d", "e", "j">>,
  <<"v", "y'", "p", "r", "o", "d", "e", "j">>,
  <<"v", "e^", "z", "e", "n^">>,
  <<"z", "e", "t^">>,
  <<"z", "l", "o", "d^", "e", "j">>,
  <<"z^", "o", "k", "e", "j">>
  >>

forceF ==
  <<
  <<"d", "a", "g", "m", "a", "r">>,
  <<"d", "e", "s^", "t^">>,
  <<"d", "i", "g", "e", "s", "t", "o", "r^">>,
  <<"e", "s", "t", "e", "r">>,
  <<"k", "a", "n", "c", "e", "l", "a'", "r^">>,
  <<"k", "l", "e", "c^">>,
  <<"k", "o", "n", "z", "e", "r", "v", "a", "t", "o", "r^">>,
  <<"k", "o", "u", "d", "e", "l">>,
  <<"k", "o", "u", "p", "e", "l">>,
  <<"k", "r^", "e", "c^">>,
  <<"m", "a", "s^", "t", "a", "l">>,
  <<"m", "i", "r", "i", "a", "m">>,
  <<"n", "e", "t", "e", "r^">>,
  <<"o", "b", "e", "c">>,
  <<"o", "c", "e", "l">>,
  <<"o", "r", "a", "t", "o", "r^">>,
  <<"o", "t", "e", "p">>,
  <<"p", "o", "s", "t", "e", "l">>,
  <<"p", "r", "d", "e", "l">>,
  <<"r", "o", "z", "k", "o", "s^">>,
  <<"r^", "e", "c^">>,
  <<"s", "b", "e", "r^">>,
  <<"t", "r", "o", "f", "e", "j">>,
  <<"v", "e", "s">>,
  <<"v", "y'", "s", "t", "r", "o", "j">>,
  <<"v", "y'", "z", "b", "r", "o", "j">>,
  <<"v", "s^">>,
  <<"z", "b", "r", "o", "j">>,
  <<"z", "t", "e", "c^">>,
  <<"z", "v", "e^", "r^">>,
  <<"z", "a'", "v", "e^", "j">>
  >>

forceS ==
  <<
  <<"h", "o", "u", "s", "e">>,
  <<"k", "u", "r^", "e">>,
  <<"k", "u~", "z", "l", "e">>,
  <<"n", "e", "m", "l", "u", "v", "n^", "e">>,
  <<"o", "s", "l", "e">>,
  <<"p", "r", "a", "s", "e">>,
  <<"s", "e", "l", "e">>,
  <<"s", "l", "u~", "n", "e^">>,
  <<"t", "e", "l", "e">>,
  <<"v", "e", "j", "c", "e">>,
  <<"z", "v", "i'", "r^", "e">>
  >>

(***************************************************************************)
(* class Inflection: the methods.                                          *)
(***************************************************************************)
null == "null"

\* the replacement tables of breakAccents and fixAccents
breakMap ==
  << << <<"d", "i">>,  <<"d^", "i">> >>, << <<"t", "i">>,  <<"t^", "i">> >>,
     << <<"n", "i">>,  <<"n^", "i">> >>, << <<"d", "e^">>, <<"d^", "e">> >>,
     << <<"t", "e^">>, <<"t^", "e">> >>, << <<"n", "e^">>, <<"n^", "e">> >> >>

fixMap ==
  << << <<"d^", "i">>, <<"d", "i">> >>,  << <<"t^", "i">>, <<"t", "i">> >>,
     << <<"n^", "i">>, <<"n", "i">> >>,  << <<"d^", "e">>, <<"d", "e^">> >>,
     << <<"t^", "e">>, <<"t", "e^">> >>, << <<"n^", "e">>, <<"n", "e^">> >> >>

breakAccents(word) == replaceDigraphs(word, breakMap)

fixAccents(word) == replaceDigraphs(word, fixMap)

\* word.charAt(0).toUpperCase() + word.slice(1); charAt(0) of "" is ""
capitalize(word) ==
  IF word = <<>> THEN <<>> ELSE <<UpperChar(word[1])>> \o Tail(word)

\* word[0] === word[0].toUpperCase(), for a word that has a first character
isUpper(word) == word[1] = UpperChar(word[1])

\* new RegExp(pattern.slice(1) + '$', 'iu') matches word: every element of the
\* rule matches one character, so the match is the last Len(p.rx) characters
regexMatches(p, word) ==
  LET n == Len(p.rx)
  IN  /\ Len(word) >= n
      /\ \A i \in 1..n : LowerChar(word[Len(word) - n + i]) \in p.rx[i].cs

\* matches[1], matches[2], ...: the texts of the capture groups, left to right
captures(p, word) ==
  LET n   == Len(p.rx)
      idx == SelectSeq([i \in 1..n |-> i], LAMBDA i : p.rx[i].cap)
  IN  [k \in 1..Len(idx) |-> <<word[Len(word) - n + idx[k]]>>]

\* match(pattern, word): the value returned, -1 for no match
match(p, word) ==
  IF ~p.suffix
  THEN IF toLowerCase(p.lit) = toLowerCase(word) THEN 0 ELSE -1
  ELSE IF regexMatches(p, word) THEN Len(word) - Len(p.rx) ELSE -1

\* matchReplacements appending the captures instead of storing them at 0, 1
matchReplacementsAppend(p, word, reps) ==
  IF p.suffix /\ regexMatches(p, word) THEN reps \o reverse(captures(p, word)) ELSE reps

\* match(pattern, word): this.replacements after the call. With g groups,
\* replacements[i - 1] = matches[g + 1 - i] for i = g .. 1; other slots stay
matchReplacements(p, word, reps) ==
  IF p.suffix /\ regexMatches(p, word)
  THEN LET m == captures(p, word)
           g == Len(m)
           n == IF Len(reps) > g THEN Len(reps) ELSE g
       IN  [k \in 1..n |-> IF k <= g THEN m[g + 1 - k] ELSE reps[k]]
  ELSE reps

\* the groups of a rule: the capture groups of its regular expression
groups(p) == Cardinality({i \in 1..Len(p.rx) : p.rx[i].cap})

\* assignedBy writing the resolved template back into the row that matched
assignedByCaching(pat) ==
  IF pat # 0 THEN {"replacements", "patterns"} ELSE {}

\* the fields of the instance one iteration of the loop over the words writes
\* to when the pattern loop stops at row pat: match assigns the slots of
\* this.replacements for the groups of the rule that matched, and nothing
\* else in inflect or match has a field of this, or a row of a table, on the
\* left of an assignment or as the receiver of push, reverse or fill
assignedBy(pat) ==
  IF pat # 0 /\ patterns[pat].suffix /\ groups(patterns[pat]) > 0
  THEN {"replacements"} ELSE {}

\* the keys of this.replacements as for..in yields them: "0", "1", ...
indexKey == <<"0", "1", "2", "3", "4", "5", "6", "7", "8", "9">>

\* substitute with the loop over this.replacements left out
substituteNothing(postfix, reps, k) == postfix

\* for (let i in this.replacements) postfix = postfix.replace(i, this.replacements[i])
RECURSIVE substitute(_, _, _)
substitute(postfix, reps, k) ==
  IF k > Len(reps) THEN postfix
  ELSE substitute(replaceFirst(postfix, indexKey[k], reps[k]), reps, k + 1)

\* the animate / inanimate alternative of a template
alternative(postfix, anim) ==
  LET posSlash == indexOf(postfix, "/")
  IN  IF posSlash # -1
      THEN IF anim THEN sliceFrom(postfix, posSlash + 1) ELSE sliceTo(postfix, posSlash)
      ELSE postfix

includes(list, w) == \E i \in 1..Len(list) : list[i] = w

\* forceGender without the test gender === null
forceGenderAlways(g, wordLower) ==
  IF includes(forceM, wordLower) THEN "m"
  ELSE IF includes(forceF, wordLower) THEN "f"
  ELSE IF includes(forceS, wordLower) THEN "s"
  ELSE g

\* forceGender looking into forceF before forceM
forceGenderFeminineFirst(g, wordLower) ==
  IF g = null
  THEN IF includes(forceF, wordLower) THEN "f"
       ELSE IF includes(forceM, wordLower) THEN "m"
       ELSE IF includes(forceS, wordLower) THEN "s"
       ELSE g
  ELSE g

\* the gender after the lookup in the force lexicons
forceGender(g, wordLower) ==
  IF g = null
  THEN IF includes(forceM, wordLower) THEN "m"
       ELSE IF includes(forceF, wordLower) THEN "f"
       ELSE IF includes(forceS, wordLower) THEN "s"
       ELSE g
  ELSE g

\* findException comparing the stem e[1] of the rows instead of the key e[0]
findExceptionByStem(wordLower) ==
  LET key == breakAccents(wordLower)
  IN  IF \E i \in 1..Len(exceptions) : exceptions[i][2] = key
      THEN CHOOSE i \in 1..Len(exceptions) :
             /\ exceptions[i][2] = key
             /\ \A j \in 1..(i - 1) : exceptions[j][2] # key
      ELSE 0

\* this.exceptions.find(e => e[0] === this.breakAccents(wordLower)): the row
\* number of the first such exception, 0 for undefined
findException(wordLower) ==
  LET key == breakAccents(wordLower)
  IN  IF \E i \in 1..Len(exceptions) : exceptions[i][1] = key
      THEN CHOOSE i \in 1..Len(exceptions) :
             /\ exceptions[i][1] = key
             /\ \A j \in 1..(i - 1) : exceptions[j][1] # key
      ELSE 0

\* skipped with the test of the gender left out: no row is skipped
skippedNever(g, p) == FALSE

\* if (gender && pattern[0] !== gender) continue;  null and "" are falsy
skipped(g, p) == g # null /\ g # "" /\ p.gender # g

\* firstMatch taking the last row that is not skipped and matches
lastMatch(g, baseWord) ==
  LET hits == {i \in 1..Len(patterns) :
                 ~skipped(g, patterns[i]) /\ match(patterns[i], baseWord) # -1}
  IN  IF hits = {} THEN 0 ELSE CHOOSE i \in hits : \A j \in hits : i >= j

\* the for loop over this.patterns: the first row, in table order, that is
\* not skipped and matches; 0 when the loop ends without a match
firstMatch(g, baseWord) ==
  LET hits == {i \in 1..Len(patterns) :
                 ~skipped(g, patterns[i]) /\ match(patterns[i], baseWord) # -1}
  IN  IF hits = {} THEN 0 ELSE CHOOSE i \in hits : \A j \in hits : i <= j

\* matchCalls of a loop that calls match twice on each row it tries
matchCallsTwice(g, pat) ==
  LET last == IF pat = 0 THEN Len(patterns) ELSE pat
  IN  2 * Cardinality({i \in 1..last : ~skipped(g, patterns[i])})

\* the calls of match the loop makes when it stops at row pat (0: runs to the end)
matchCalls(g, pat) ==
  LET last == IF pat = 0 THEN Len(patterns) ELSE pat
  IN  Cardinality({i \in 1..last : ~skipped(g, patterns[i])})

\* { ...Array(14).fill(word) }: keys 0 .. 13, so slots 1 .. 13 hold the word
\* and slot 14 is undefined
filled(word) ==
  [k \in 1..NumForms |->
     IF k < NumForms THEN [def |-> TRUE, val |-> word] ELSE [def |-> FALSE, val |-> <<>>]]

\* inflectedWord[caseIndex] for caseIndex 2 .. 14 once pattern p matched
caseForm(caseIndex, p, prefix, exception, reps, anim, upper) ==
  IF exception # 0 /\ caseIndex = 4
  THEN capitalize(exceptions[exception][3])
  ELSE LET postfix == alternative(substitute(p.forms[caseIndex], reps, 1), anim)
           res     == fixAccents(prefix \o postfix)
       IN  IF upper THEN capitalize(res) ELSE res

\* The body of the loop over the words, for a word with a first character,
\* in the order of the source.  What an iteration yields: the entries it
\* pushes on inflected, the gender and this.replacements after it, and what
\* it used (the gender after the force lexicons, the exception row, the base
\* word, the pattern row, the calls of match).

\* lines 1138-1140 when no pattern matched: inflectedWord[2] is undefined
unmatchedWord(word0, word, g1, exception, baseWord, reps0) ==
  [pushed |-> <<filled(word)>>, gender |-> g1, replacements |-> reps0,
   word |-> word0, forced |-> g1, exception |-> exception, pattern |-> 0,
   base |-> baseWord, matchCalls |-> matchCalls(g1, 0)]

\* lines 1132-1140 once the forms of the matched word are there
pushMatched(word0, word, g1, exception, baseWord, pat, p, reps1, inflectedWord) ==
  [pushed |-> IF inflectedWord[2].val = <<>>       \* !inflectedWord[2]
              THEN <<inflectedWord, filled(word)>>
              ELSE <<inflectedWord>>,
   gender |-> p.gender, replacements |-> reps1,
   word |-> word0, forced |-> g1, exception |-> exception, pattern |-> pat,
   base |-> baseWord, matchCalls |-> matchCalls(g1, pat)]

\* lines 1092 and 1112-1131: inflectedWord of a matched word
inflectedForms(word0, p, prefix, exception, reps1, anim, upper) ==
  [k \in 1..NumForms |->
     [def |-> TRUE,
      val |-> IF k = 1 THEN word0
              ELSE caseForm(k, p, prefix, exception, reps1, anim, upper)]]

\* lines 1108-1134 for the pattern p = patterns[pat] that matched
matchedWord(word0, word, g1, exception, baseWord, pat, p, reps0, reps1, anim) ==
  pushMatched(word0, word, g1, exception, baseWord, pat, p, reps1,
              inflectedForms(word0, p, sliceTo(baseWord, match(p, baseWord)), exception,
                             reps1, anim, isUpper(word0)))

\* lines 1104-1140 given the row pat the pattern loop stopped at
afterLoop(word0, word, g1, exception, baseWord, pat, reps0, anim) ==
  IF pat = 0
  THEN unmatchedWord(word0, word, g1, exception, baseWord, reps0)
  ELSE matchedWord(word0, word, g1, exception, baseWord, pat, patterns[pat], reps0,
                   matchReplacements(patterns[pat], baseWord, reps0), anim)

\* lines 1104-1107: the pattern loop on the base word
patternLoop(word0, word, g1, exception, baseWord, reps0, anim) ==
  afterLoop(word0, word, g1, exception, baseWord, firstMatch(g1, baseWord), reps0, anim)

\* lines 1102 and 1107: the exception and the base word
withException(word0, word, g1, exception, reps0, anim) ==
  patternLoop(word0, word, g1, exception,
              IF exception # 0 THEN exceptions[exception][2] ELSE word, reps0, anim)

\* lines 1094-1102 on the accent-broken word
brokenWord(word0, word, g0, reps0, anim) ==
  withException(word0, word, forceGender(g0, toLowerCase(word)),
                findException(toLowerCase(word)), reps0, anim)

\* lines 1091-1140: one iteration of the loop over the words
inflectWord(word0, g0, reps0, anim) ==
  brokenWord(word0, breakAccents(word0), g0, reps0, anim)

\* the tail of inflect: result[caseIndex] for caseIndex 1 .. 14
assemble(infl) ==
  LET reversed == reverse(infl)
  IN  [caseIndex \in 1..NumForms |->
         join([i \in 1..Len(reversed) |-> reversed[i][caseIndex]])]

\* the for loop over the words from the local state (gender, inflected) and
\* this.replacements on: the per-word results it leaves in inflected
RECURSIVE inflectLoop(_, _, _, _, _)
loopStep(ws, r, anim, infl) ==
  inflectLoop(Tail(ws), r.gender, r.replacements, anim, infl \o r.pushed)

inflectLoop(ws, g, reps, anim, infl) ==
  IF ws = <<>> THEN infl
  ELSE loopStep(ws, inflectWord(Head(ws), g, reps, anim), anim, infl)

\* new Inflection().inflect(t, anim) for a text without an empty word: the
\* capture buffer is the empty one of the constructor
freshInflect(t, anim) ==
  assemble(inflectLoop(reverse(split(t)), null, <<>>, anim, <<>>))

(***************************************************************************)
(* The texts inflect is called with.                                       *)
(***************************************************************************)
W_Novak == <<"N", "o", "v", "a'", "k">>
W_novak == <<"n", "o", "v", "a'", "k">>
W_pes == <<"p", "e", "s">>
W_Pes == <<"P", "e", "s">>
W_Karel == <<"K", "a", "r", "e", "l">>
W_Ludek == <<"L", "u", "d", "e^", "k">>
W_Martinu == <<"M", "a", "r", "t", "i", "n", "u~">>
W_Xu == <<"X", "u">>
W_my == <<"m", "y">>
W_Jana == <<"J", "a", "n", "a">>
W_Novakova == <<"N", "o", "v", "a'", "k", "o", "v", "a'">>
W_saty == <<"s^", "a", "t", "y">>
W_devce == <<"d", "e^", "v", "c^", "e">>
W_Toni == <<"T", "o", "n", "i">>
W_Sane == <<"S", "a'", "n", "e^">>
W_on == <<"o", "n">>
W_cestujici == <<"c", "e", "s", "t", "u", "j", "i'", "c", "i'">>
W_deda == <<"d", "e^", "d", "a">>
W_Deda == <<"D", "e^", "d", "a">>
W_dest == <<"d", "e", "s^", "t^">>
W_kolega == <<"k", "o", "l", "e", "g", "a">>
W_Jan == <<"J", "a", "n">>
W_studio == <<"s", "t", "u", "d", "i", "o">>

Vocabulary ==
  {W_Novak, W_novak, W_pes, W_Pes, W_Karel, W_Ludek, W_Martinu, W_Xu, W_my, W_Jana,
   W_Novakova, W_saty, W_devce, W_Toni, W_Sane, W_on, W_cestujici, W_deda, W_Deda, W_dest,
   W_kolega, W_Jan, W_studio}

\* the words of the multi-word texts; the empty word stands for a leading,
\* a trailing or a doubled space
PhraseWords == {W_Novak, W_Jana, W_Novakova, W_saty, W_my, W_deda, W_dest, <<>>}

RECURSIVE joinWords(_)
joinWords(ws) ==
  IF Len(ws) = 1 THEN ws[1] ELSE ws[1] \o <<" ">> \o joinWords(Tail(ws))

Texts ==
  Vocabulary \cup {<<>>}
    \cup UNION {{joinWords(ws) : ws \in [1..n -> PhraseWords]} : n \in 2..MaxWords}

(***************************************************************************)
(* The state machine.                                                      *)
(***************************************************************************)
Init ==
  /\ replacements = <<>>
  /\ pc = "idle"
  /\ calls = 0
  /\ text = <<>>
  /\ animate = FALSE
  /\ words = <<>>
  /\ gender = null
  /\ inflected = <<>>
  /\ result = <<>>
  /\ log = <<>>
  /\ attempts = 0
  /\ assigned = {}
  /\ tab = "blank"
  /\ page = <<>>
  /\ clipboardApi = FALSE
  /\ popup = "closed"
  /\ update = "idle"
  /\ listeners = 0
  /\ clicks = 0
  /\ inflectText = "undefined"
  /\ handlers = <<>>
  /\ clipboard = "empty"
  /\ requests = {}

\* new Inflection()
Construct ==
  /\ pc = "idle"
  /\ calls > 0
  /\ replacements' = <<>>
  /\ assigned' = {}
  /\ calls' = 0
  /\ UNCHANGED <<pc, text, animate, words, gender, inflected, result, log, attempts>>
  /\ UNCHANGED extensionVars

\* inflect(text, animate) up to the for loop
Inflect(t, a) ==
  /\ pc = "idle"
  /\ calls < MaxCalls
  /\ calls' = calls + 1
  /\ text' = t
  /\ animate' = a
  /\ words' = reverse(split(t))
  /\ gender' = null
  /\ inflected' = <<>>
  /\ result' = <<>>
  /\ log' = <<>>
  /\ attempts' = 0
  /\ pc' = "loop"
  /\ UNCHANGED <<replacements, assigned>>
  /\ UNCHANGED extensionVars

\* one iteration of the for loop on a word that has a first character
Word ==
  /\ pc = "loop"
  /\ words # <<>>
  /\ Head(words) # <<>>
  /\ log' = Append(log, inflectWord(Head(words), gender, replacements, animate))
  /\ replacements' = log'[Len(log')].replacements
  /\ gender' = log'[Len(log')].gender
  /\ inflected' = inflected \o log'[Len(log')].pushed
  /\ attempts' = attempts + log'[Len(log')].matchCalls
  /\ assigned' = assigned \cup assignedBy(log'[Len(log')].pattern)
  /\ words' = Tail(words)
  /\ UNCHANGED <<pc, calls, text, animate, result>>
  /\ UNCHANGED extensionVars

\* the iteration on an empty word: word[0] is undefined and
\* word[0].toUpperCase() raises a TypeError, which ends the call
EmptyWord ==
  /\ pc = "loop"
  /\ words # <<>>
  /\ Head(words) = <<>>
  /\ pc' = "threw"
  /\ UNCHANGED <<replacements, calls, text, animate, words, gender, inflected, result, log,
                 attempts, assigned>>
  /\ UNCHANGED extensionVars

\* after the loop: the forms are assembled and returned
Assemble ==
  /\ pc = "loop"
  /\ words = <<>>
  /\ result' = assemble(inflected)
  /\ pc' = "done"
  /\ UNCHANGED <<replacements, calls, text, animate, words, gender, inflected, log, attempts,
                 assigned>>
  /\ UNCHANGED extensionVars

\* the caller goes on after the return or the exception; the locals are gone
Finish ==
  /\ pc \in {"done", "threw"}
  /\ pc' = "idle"
  /\ text' = <<>>
  /\ animate' = FALSE
  /\ words' = <<>>
  /\ gender' = null
  /\ inflected' = <<>>
  /\ result' = <<>>
  /\ log' = <<>>
  /\ attempts' = 0
  /\ UNCHANGED <<replacements, calls, assigned>>
  /\ UNCHANGED extensionVars

Next ==
  \/ Construct
  \/ \E t \in Texts, a \in BOOLEAN : Inflect(t, a)
  \/ Word
  \/ EmptyWord
  \/ Assemble
  \/ Finish

Spec == Init /\ [][Next]_vars

\* a step of the running call as the control flow shows it: the loop takes
\* its next word (Word), raises on an empty one (EmptyWord), or the call
\* returns after the last word (Assemble)
Advance ==
  /\ pc = "loop"
  /\ words' = (IF words # <<>> /\ Head(words) # <<>> THEN Tail(words) ELSE words)
  /\ pc' = (IF words = <<>> THEN "done"
            ELSE IF Head(words) = <<>> THEN "threw" ELSE "loop")

\* inflect is synchronous code: once it is called, the loop over the words
\* runs on to the return or to the exception without waiting for anything
SpecLive == Spec /\ WF_<<pc, words>>(Advance)

(***************************************************************************)
(* The extension around the engine: the popup (popup.js), the background   *)
(* script and the content script in the tab of a case page.                *)
(***************************************************************************)
IntranetHost == "isnss"
UpdateHost == "raw.githubusercontent.com"

\* the person rows a case page is made of: the anchor of the third cell
\* ("ok": with an href, "nohref": without, "noanchor": no anchor at all), the
\* cls and pId of the href, and the pId of the attorney row of the person
\* ("": none)
PersonRows ==
  {[anchor |-> "ok", cls |-> "JRFyzickaOsobaInfo", pId |-> "p1", attorney |-> ""],
   [anchor |-> "ok", cls |-> "JRPravnickaOsobaInfo", pId |-> "p2", attorney |-> "p3"],
   [anchor |-> "nohref", cls |-> "", pId |-> "", attorney |-> ""],
   [anchor |-> "noanchor", cls |-> "", pId |-> "", attorney |-> ""]}

Pages == UNION {[1..n -> PersonRows] : n \in 0..MaxPersons}

\* the versions of a manifest: dot-separated numbers, as the strings they are
Versions ==
  {<<"1">>, <<"1", ".", "0">>, <<"1", ".", "9">>, <<"1", ".", "1", "0">>}

\* the value of message.inflectText: the checkbox of the popup, or undefined
\* in the message of the background script
Flags == {"true", "false"}

\* fetchPersonDetailsRequest with the host of the update check
fetchPersonDetailsRemote(cls, pId) ==
  [host |-> UpdateHost, path |-> "/main.aspx", query |-> <<cls, pId>>]

\* fetch(`http://isnss/main.aspx?cls=${cls}&pId=${pId}`)
fetchPersonDetailsRequest(cls, pId) ==
  [host |-> IntranetHost, path |-> "/main.aspx", query |-> <<cls, pId>>]

\* fetch('https://raw.githubusercontent.com/OTFlorian/isnss-extractor/main/manifest.json')
checkForUpdateRequest ==
  [host |-> UpdateHost, path |-> "/OTFlorian/isnss-extractor/main/manifest.json",
   query |-> <<>>]

\* chrome.tabs.create({ url: link.href }) for a link of the popup's markup
externalLinkRequest ==
  [host |-> "link.href", path |-> "", query |-> <<>>]

\* extractPersonDetails(row), fetchAttorney(pId): what one person row makes
\* the extraction do, in order
rowSteps(row) ==
  IF row.anchor = "noanchor" THEN <<[op |-> "throw", cls |-> "", pId |-> ""]>>
  ELSE IF row.anchor = "nohref" THEN <<>>
  ELSE <<[op |-> "fetch", cls |-> row.cls, pId |-> row.pId]>>
         \o (IF row.attorney = "" THEN <<>>
             ELSE <<[op |-> "fetch", cls |-> "JRFyzickaOsobaInfo", pId |-> row.attorney]>>)

\* extractAllParties: the steps of the whole page
RECURSIVE extractAllParties(_)
extractAllParties(rows) ==
  IF rows = <<>> THEN <<>> ELSE rowSteps(Head(rows)) \o extractAllParties(Tail(rows))

\* version.split('.')
RECURSIVE splitDots(_)
splitDots(s) ==
  LET pos == indexOf(s, ".")
  IN  IF pos = -1 THEN <<s>> ELSE <<sliceTo(s, pos)>> \o splitDots(sliceFrom(s, pos + 1))

\* Number(part) for a part made of decimal digits; Number("") is 0
RECURSIVE Number(_)
Number(part) ==
  IF part = <<>> THEN 0
  ELSE 10 * Number(sliceTo(part, Len(part) - 1))
         + (CHOOSE d \in 0..9 : indexKey[d + 1] = part[Len(part)])

\* version.split('.').map(Number)
versionParts(version) ==
  [i \in 1..Len(splitDots(version)) |-> Number(splitDots(version)[i])]

\* newerFrom with the loop running over the parts of the current version
RECURSIVE newerFromByCurrent(_, _, _)
newerFromByCurrent(currentParts, latestParts, i) ==
  IF i > Len(currentParts) THEN FALSE
  ELSE LET l == IF i <= Len(latestParts) THEN latestParts[i] ELSE 0
       IN  IF l > currentParts[i] THEN TRUE
           ELSE IF l < currentParts[i] THEN FALSE
           ELSE newerFromByCurrent(currentParts, latestParts, i + 1)

\* isNewerVersion with that loop
isNewerVersionByCurrent(current, latest) ==
  newerFromByCurrent(versionParts(current), versionParts(latest), 1)

\* isNewerVersion(current, latest) on the parts from position i on
RECURSIVE newerFrom(_, _, _)
newerFrom(currentParts, latestParts, i) ==
  IF i > Len(latestParts) THEN FALSE
  ELSE LET c == IF i <= Len(currentParts) THEN currentParts[i] ELSE 0
       IN  IF latestParts[i] > c THEN TRUE
           ELSE IF latestParts[i] < c THEN FALSE
           ELSE newerFrom(currentParts, latestParts, i + 1)

isNewerVersion(current, latest) ==
  newerFrom(versionParts(current), versionParts(latest), 1)

\* the caption formatAttorneyText gives with the value of inflectText it reads
caption(flag) == IF flag = "true" THEN "inflected" ELSE "plain"

\* sendResponse(r) in the run h of the listener
sendResponse(h, ok) ==
  [h EXCEPT !.responses = Append(@, [success |-> ok]), !.pc = "done"]

\* fallbackCopyTextToClipboard that copies and does not call sendResponse
fallbackCopyTextSilently(h, outcome) == [h EXCEPT !.pc = "done"]

\* fallbackCopyTextToClipboard(text, sendResponse) when document.execCommand
\* ends as outcome: "copied" (true), "notcopied" (false) or "threw"
fallbackCopyTextToClipboard(h, outcome) ==
  sendResponse(h, outcome # "threw")

\* a run of the listener has its parties and goes on, in the same task of the
\* event loop, to formatInformation and to the call that copies the text: no
\* other callback of the content script runs before it gets there
ready ==
  \E i \in 1..Len(handlers) : handlers[i].pc = "extracting" /\ handlers[i].left = <<>>

\* the page is opened in the tab: a new document, no listener yet
OpenPage(p, api) ==
  /\ tab = "blank"
  /\ tab' = "case"
  /\ page' = p
  /\ clipboardApi' = api
  /\ UNCHANGED <<popup, update, listeners, clicks, inflectText, handlers, clipboard, requests>>
  /\ UNCHANGED inflectionVars

\* DOMContentLoaded of the popup: the handlers are set and checkForUpdate
\* runs to its await of fetch
PopupLoaded ==
  /\ popup = "closed"
  /\ popup' = "open"
  /\ update' = "pending"
  /\ requests' = requests \cup {checkForUpdateRequest}
  /\ UNCHANGED <<tab, page, clipboardApi, listeners, clicks, inflectText, handlers, clipboard>>
  /\ UNCHANGED inflectionVars

\* checkForUpdate after the await: the manifest came
UpdateFetched(current, latest) ==
  /\ popup = "open"
  /\ update = "pending"
  /\ update' = IF isNewerVersion(current, latest) THEN "available" ELSE "current"
  /\ UNCHANGED <<tab, page, clipboardApi, popup, listeners, clicks, inflectText, handlers,
                 clipboard, requests>>
  /\ UNCHANGED inflectionVars

\* checkForUpdate: fetch or response.json() failed, the catch logs it
UpdateFailed ==
  /\ popup = "open"
  /\ update = "pending"
  /\ update' = "error"
  /\ UNCHANGED <<tab, page, clipboardApi, popup, listeners, clicks, inflectText, handlers,
                 clipboard, requests>>
  /\ UNCHANGED inflectionVars

\* click on a link of class external-link
ClickExternalLink ==
  /\ popup = "open"
  /\ requests' = requests \cup {externalLinkRequest}
  /\ UNCHANGED <<tab, page, clipboardApi, popup, update, listeners, clicks, inflectText,
                 handlers, clipboard>>
  /\ UNCHANGED inflectionVars

\* the popup goes away with its document
ClosePopup ==
  /\ popup = "open"
  /\ popup' = "closed"
  /\ update' = "idle"
  /\ UNCHANGED <<tab, page, clipboardApi, listeners, clicks, inflectText, handlers, clipboard,
                 requests>>
  /\ UNCHANGED inflectionVars

\* chrome.scripting.executeScript({files: ["content.js"]}) and then
\* chrome.tabs.sendMessage.  The first injection into the page evaluates
\* content.js, which registers the listener.  A later injection evaluates the
\* file again in the same world, where class Inflection is declared already:
\* the script is rejected as a redeclaration before any of its statements
\* runs, and the listener of the first injection receives the message.
sendExtractInfo(flag) ==
  /\ tab = "case"
  /\ clicks' = clicks + 1
  /\ listeners' = 1
  /\ handlers' = handlers \o
       [i \in 1..listeners' |->
          [msg |-> clicks + 1, flag |-> flag, pc |-> "sent", left |-> <<>>,
           used |-> "none", responses |-> <<>>]]
  /\ UNCHANGED <<tab, page, clipboardApi, popup, update, inflectText, clipboard, requests>>
  /\ UNCHANGED inflectionVars

\* click on the button of the popup
ClickExtract(flag) ==
  /\ popup = "open"
  /\ sendExtractInfo(flag)

\* chrome.action.onClicked: the message has no inflectText
ActionClicked ==
  /\ popup = "closed"
  /\ sendExtractInfo("undefined")

\* the message k reaches the tab: the listener sets the global inflectText
\* and starts extractInformation, which runs to its first await
Receive(k) ==
  /\ ~ready
  /\ \E i \in 1..Len(handlers) : handlers[i].msg = k /\ handlers[i].pc = "sent"
  /\ \A i \in 1..Len(handlers) : handlers[i].pc = "sent" => handlers[i].msg >= k
  /\ inflectText' = (CHOOSE h \in {handlers[i] : i \in 1..Len(handlers)} : h.msg = k).flag
  /\ handlers' =
       [i \in 1..Len(handlers) |->
          IF handlers[i].msg = k
          THEN [handlers[i] EXCEPT !.pc = "extracting", !.left = extractAllParties(page)]
          ELSE handlers[i]]
  /\ UNCHANGED <<tab, page, clipboardApi, popup, update, listeners, clicks, clipboard,
                 requests>>
  /\ UNCHANGED inflectionVars

\* extractInformation of run i goes on to its next step: a row without an
\* anchor raises a TypeError, else fetchPersonDetails makes its request, whose
\* response comes (ok) or not; an error ends in the catch of the listener
Fetch(i, ok) ==
  /\ ~ready
  /\ handlers[i].pc = "extracting"
  /\ handlers[i].left # <<>>
  /\ LET step == Head(handlers[i].left)
     IN  IF step.op = "throw"
         THEN /\ handlers' = [handlers EXCEPT ![i] = sendResponse(@, FALSE)]
              /\ UNCHANGED requests
         ELSE /\ requests' = requests \cup {fetchPersonDetailsRequest(step.cls, step.pId)}
              /\ handlers' =
                   [handlers EXCEPT ![i] =
                      IF ok THEN [@ EXCEPT !.left = Tail(@)] ELSE sendResponse(@, FALSE)]
  /\ UNCHANGED <<tab, page, clipboardApi, popup, update, listeners, clicks, inflectText,
                 clipboard>>
  /\ UNCHANGED inflectionVars

\* the parties are there and extractDefendantDecisions or formatInformation
\* throws (a cell missing in the page, inflect on an empty name): the catch of
\* the listener answers
FormatThrows ==
  /\ \E i \in 1..Len(handlers) :
       /\ handlers[i].pc = "extracting"
       /\ handlers[i].left = <<>>
       /\ handlers' = [handlers EXCEPT ![i] = sendResponse(@, FALSE)]
  /\ UNCHANGED <<tab, page, clipboardApi, popup, update, listeners, clicks, inflectText,
                 clipboard, requests>>
  /\ UNCHANGED inflectionVars

\* the parties are there: formatInformation reads the global inflectText, and
\* navigator.clipboard.writeText(info) is called
Format ==
  /\ clipboardApi
  /\ \E i \in 1..Len(handlers) :
       /\ handlers[i].pc = "extracting"
       /\ handlers[i].left = <<>>
       /\ handlers' = [handlers EXCEPT ![i] = [@ EXCEPT !.used = inflectText, !.pc = "writing"]]
  /\ UNCHANGED <<tab, page, clipboardApi, popup, update, listeners, clicks, inflectText,
                 clipboard, requests>>
  /\ UNCHANGED inflectionVars

\* the same without navigator.clipboard: the fallback is called at once
FormatFallback(outcome) ==
  /\ ~clipboardApi
  /\ \E i \in 1..Len(handlers) :
       /\ handlers[i].pc = "extracting"
       /\ handlers[i].left = <<>>
       /\ handlers' =
            [handlers EXCEPT ![i] =
               fallbackCopyTextToClipboard([@ EXCEPT !.used = inflectText], outcome)]
       /\ clipboard' = IF outcome = "copied" THEN caption(inflectText) ELSE clipboard
  /\ UNCHANGED <<tab, page, clipboardApi, popup, update, listeners, clicks, inflectText,
                 requests>>
  /\ UNCHANGED inflectionVars

\* writeText resolved
WriteResolved ==
  /\ ~ready
  /\ \E i \in 1..Len(handlers) :
       /\ handlers[i].pc = "writing"
       /\ handlers' = [handlers EXCEPT ![i] = sendResponse(@, TRUE)]
       /\ clipboard' = caption(handlers[i].used)
  /\ UNCHANGED <<tab, page, clipboardApi, popup, update, listeners, clicks, inflectText,
                 requests>>
  /\ UNCHANGED inflectionVars

\* writeText rejected: the fallback
WriteRejected(outcome) ==
  /\ ~ready
  /\ \E i \in 1..Len(handlers) :
       /\ handlers[i].pc = "writing"
       /\ handlers' = [handlers EXCEPT ![i] = fallbackCopyTextToClipboard(@, outcome)]
       /\ clipboard' = IF outcome = "copied" THEN caption(handlers[i].used) ELSE clipboard
  /\ UNCHANGED <<tab, page, clipboardApi, popup, update, listeners, clicks, inflectText,
                 requests>>
  /\ UNCHANGED inflectionVars

NextExt ==
  \/ \E p \in Pages, api \in BOOLEAN : OpenPage(p, api)
  \/ PopupLoaded
  \/ \E current, latest \in Versions : UpdateFetched(current, latest)
  \/ UpdateFailed
  \/ ClickExternalLink
  \/ ClosePopup
  \/ clicks < MaxMsgs /\ \E flag \in Flags : ClickExtract(flag)
  \/ clicks < MaxMsgs /\ ActionClicked
  \/ \E k \in 1..MaxMsgs : Receive(k)
  \/ \E i \in DOMAIN handlers, ok \in BOOLEAN : Fetch(i, ok)
  \/ FormatThrows
  \/ Format
  \/ \E outcome \in {"copied", "notcopied", "threw"} : FormatFallback(outcome)
  \/ WriteResolved
  \/ \E outcome \in {"copied", "notcopied", "threw"} : WriteRejected(outcome)

SpecExt == Init /\ [][NextExt]_vars

\* the same with room for a message sent while another is being handled
NextRace ==
  \/ \E p \in Pages, api \in BOOLEAN : OpenPage(p, api)
  \/ PopupLoaded
  \/ \E current, latest \in Versions : UpdateFetched(current, latest)
  \/ UpdateFailed
  \/ ClickExternalLink
  \/ ClosePopup
  \/ clicks < MaxOverlap /\ \E flag \in Flags : ClickExtract(flag)
  \/ clicks < MaxOverlap /\ ActionClicked
  \/ \E k \in 1..MaxOverlap : Receive(k)
  \/ \E i \in DOMAIN handlers, ok \in BOOLEAN : Fetch(i, ok)
  \/ FormatThrows
  \/ Format
  \/ \E outcome \in {"copied", "notcopied", "threw"} : FormatFallback(outcome)
  \/ WriteResolved
  \/ \E outcome \in {"copied", "notcopied", "threw"} : WriteRejected(outcome)

SpecRace == Init /\ [][NextRace]_vars

\* the pages of the extension by themselves, the popup and the background
\* script: what they do before the content script of the tab has run a
\* callback
NextPopup ==
  \/ \E p \in Pages, api \in BOOLEAN : OpenPage(p, api)
  \/ PopupLoaded
  \/ \E current, latest \in Versions : UpdateFetched(current, latest)
  \/ UpdateFailed
  \/ ClickExternalLink
  \/ ClosePopup
  \/ clicks < MaxMsgs /\ \E flag \in Flags : ClickExtract(flag)
  \/ clicks < MaxMsgs /\ ActionClicked

SpecPopup == Init /\ [][NextPopup]_vars

\* a callback of the content script that is due: a response of fetch or the
\* settling of writeText arrives, or the run goes on after its last await
ContentStep ==
  \/ \E i \in DOMAIN handlers, ok \in BOOLEAN : Fetch(i, ok)
  \/ FormatThrows
  \/ Format
  \/ \E outcome \in {"copied", "notcopied", "threw"} : FormatFallback(outcome)
  \/ WriteResolved
  \/ \E outcome \in {"copied", "notcopied", "threw"} : WriteRejected(outcome)

\* the page stays open, every promise of the browser settles (fetch,
\* response.text, writeText) and the event loop runs the callbacks that are due
SpecExtLive == SpecExt /\ WF_vars(ContentStep)

(***************************************************************************)
(* The claims.                                                             *)
(***************************************************************************)
W_Novakem == <<"N", "o", "v", "a'", "k", "e", "m">>
W_psem == <<"p", "s", "e", "m">>
T_Jana_Novak == W_Jana \o <<" ">> \o W_Novak

Returned == pc = "done"

\* the soft consonants breakAccents writes for d, t, n
markers == {"d^", "t^", "n^"}
noMarker(s) == \A i \in 1..Len(s) : s[i] \notin markers
hasDigraph(s) == breakAccents(s) # s

beginsUpper(s) == s # <<>> /\ s[1] \in DOMAIN LowerOf
beginsLower(s) == s # <<>> /\ s[1] \in DOMAIN UpperOf

\* w is the lookup key of an exception
isKey(w) == \E i \in 1..Len(exceptions) : exceptions[i][1] = w

\* C1, as stated: inflect("Novak" with a' for a) with animate = false returns
\* "Novakem" in form slot 8 of the returned sequence, slots numbered from 1.
C1_Slot8 ==
  (Returned /\ text = W_Novak /\ ~animate) => result[8] = W_Novakem

\* C1, amended: inflect of that surname with animate = false returns the
\* instrumental "Novakem" in form slot 7 (slot 1 being the nominative
\* passthrough); slot 7 is the slot the caller consumes.
C1_Slot7 ==
  (Returned /\ text = W_Novak /\ ~animate) => (result[1] = W_Novak /\ result[7] = W_Novakem)

C1_Witness ==
  Returned /\ text = W_Novak /\ ~animate /\ result[7] = W_Novakem /\ result[8] # W_Novakem

\* C2: for every text of words separated by single spaces and either value of
\* animate, form slot 1 of the result equals the text exactly.
C2_Slot1IsInput ==
  Returned => result[1] = text

\* C3: if no gender-compatible pattern matches a word, all 14 form slots of
\* that word equal the original, unmodified word.
C3_UnmatchedPassthrough ==
  \A i \in 1..Len(log) :
    log[i].pattern = 0 =>
      log[i].pushed = <<[k \in 1..NumForms |-> [def |-> TRUE, val |-> log[i].word]]>>

\* C4: for every non-empty text inflect completes without raising an exception,
\* also when the text has a leading, trailing or doubled space.
C4_NonEmptyNeverThrows ==
  text # <<>> => pc # "threw"

\* C5: inflect("") does not fail: it returns normally, every form slot being
\* the empty input.
C5_EmptyPassthrough ==
  (pc \in {"done", "threw"} /\ text = <<>>) =>
    (pc = "done" /\ \A k \in 1..NumForms : result[k] = <<>>)

\* C6: for a text containing one of the digraphs di, ti, ni, de^, te^, ne^ (and
\* no soft d^, t^, n^ of its own), no form slot of the result contains a soft
\* consonant d^, t^ or n^.
C6_NoMarkerLeft ==
  (Returned /\ hasDigraph(text) /\ noMarker(text)) =>
    \A k \in 1..NumForms : noMarker(result[k])

\* C7, as stated: once a gender is established for a word (by a force lexicon
\* or by the tag of the matched pattern), every word processed afterwards is
\* declined only by patterns carrying that tag and the gender stays the same,
\* for every gender tag that occurs in the pattern table.
C7_AnyTag ==
  \A i, j \in 1..Len(log) :
    (i < j /\ log[i].gender # null) =>
      /\ log[j].gender = log[i].gender
      /\ log[j].pattern # 0 => patterns[log[j].pattern].gender = log[i].gender

\* C7, amended: the same for every non-empty gender tag ("m", "f", "s", "-");
\* the empty tag of the plural-only rules establishes no gender.
C7_NonEmptyTag ==
  \A i, j \in 1..Len(log) :
    (i < j /\ log[i].gender \notin {null, ""}) =>
      /\ log[j].gender = log[i].gender
      /\ log[j].pattern # 0 => patterns[log[j].pattern].gender = log[i].gender

\* the word to the left is declined by another pattern than it is on its own
C7_Witness ==
  /\ Returned
  /\ text = T_Jana_Novak
  /\ log[1].gender = "m"
  /\ log[2].pattern # 0
  /\ patterns[log[2].pattern].gender = "m"
  /\ log[2].pattern # firstMatch(null, log[2].base)

\* C8: for every word that is a key of the exception table, in any letter
\* case, inflect finds the exception and declines the word from its stem.
C8_ExceptionFound ==
  \A i \in 1..Len(log) :
    isKey(toLowerCase(log[i].word)) =>
      /\ log[i].exception # 0
      /\ exceptions[log[i].exception][1] = toLowerCase(log[i].word)
      /\ log[i].base = exceptions[log[i].exception][2]

\* C9, as stated: inflect("pes") returns "psem" in form slot 8.
C9_Slot8 ==
  (Returned /\ text = W_pes) => result[8] = W_psem

\* C9, amended: inflect("pes") returns "psem", the instrumental built from the
\* exception stem "ps", in form slot 7.
C9_Slot7 ==
  (Returned /\ text = W_pes) => result[7] = W_psem

C9_Witness ==
  /\ Returned
  /\ text = W_pes
  /\ log[1].exception # 0
  /\ log[1].base = <<"p", "s">>
  /\ result[7] = W_psem

\* C10: if a word begins with an uppercase letter every form 2..14 of it begins
\* with an uppercase letter, and if it begins with a lowercase letter no form
\* 2..14 does; also for the words of the exception table.  (Stated of the
\* forms the word has: a slot left undefined is not counted here.)
C10_CapitalizationKept ==
  \A i \in 1..Len(log) : \A k \in 2..NumForms :
    LET f == log[i].pushed[1][k]
    IN  f.def =>
          /\ beginsUpper(log[i].word) => beginsUpper(f.val)
          /\ beginsLower(log[i].word) => ~beginsUpper(f.val)

\* the number of spaces in a string
spaces(s) == Cardinality({i \in 1..Len(s) : s[i] = " "})

\* C11: for a text of n words separated by single spaces exactly one per-word
\* result is produced per word, so every form slot is n components joined by
\* n - 1 spaces, component i being the declension of word i of the text; also
\* for a word matched by a literal pattern whose form templates are empty.
C11_OnePerWord ==
  Returned =>
    LET n == Len(split(text))
    IN  /\ Len(inflected) = n
        /\ \A k \in 1..NumForms :
             /\ spaces(result[k]) = n - 1
             /\ result[k] = join([i \in 1..n |-> log[n + 1 - i].pushed[1][k]])

hasSlash(s) == \E i \in 1..Len(s) : s[i] = "/"

\* the alternatives of a template: its parts between the separators "/"
RECURSIVE slashParts(_)
slashParts(s) ==
  LET p == indexOf(s, "/")
  IN  IF p = -1 THEN <<s>> ELSE <<sliceTo(s, p)>> \o slashParts(sliceFrom(s, p + 1))

\* form k of the i-th processed word as built from the alternative alt of its
\* template: the prefix of the base word, the alternative, the accents fixed,
\* the first letter as the word has it
builtFrom(i, alt) ==
  LET e   == log[i]
      res == fixAccents(sliceTo(e.base, match(patterns[e.pattern], e.base)) \o alt)
  IN  IF isUpper(e.word) THEN capitalize(res) ELSE res

\* C12: for every form template with the animate/inanimate separator, a call
\* with animate = false uses the inanimate (first) alternative and a call with
\* animate = true the animate one (after the separator), in every affected
\* form; each returned form is built from exactly one alternative and never
\* contains the separator "/".
C12_OneAlternative ==
  \A i \in 1..Len(log) : \A k \in 2..NumForms :
    (/\ log[i].pattern # 0
     /\ ~(log[i].exception # 0 /\ k = 4)
     /\ hasSlash(patterns[log[i].pattern].forms[k])) =>
      LET parts == slashParts(substitute(patterns[log[i].pattern].forms[k],
                                         log[i].replacements, 1))
          f     == log[i].pushed[1][k].val
      IN  /\ ~hasSlash(f)
          /\ ~animate => f = builtFrom(i, parts[1])
          /\ animate => \E a \in 2..Len(parts) : f = builtFrom(i, parts[a])

\* C13: inflect returns exactly 14 form values, at slots 1..14, and every slot
\* is built from a defined per-word value for each word of the text, also when
\* a word matches no pattern.  (Stated of the calls that return with one
\* per-word result for each word.)
C13_FourteenDefined ==
  (Returned /\ Len(inflected) = Len(log)) =>
    /\ DOMAIN result = 1..NumForms
    /\ \A i \in 1..Len(inflected) : \A k \in 1..NumForms : inflected[i][k].def

\* the placeholders the templates of a rule use
placeholders(p) ==
  {d \in 0..9 : \E k \in 2..NumForms : \E i \in 1..Len(p.forms[k]) :
                   p.forms[k][i] = indexKey[d + 1]}

\* row j takes every word row i would take: same gender tag, and the rule of
\* j is satisfied by every word that satisfies the rule of i
shadows(j, i) ==
  LET pj == patterns[j]
      pi == patterns[i]
  IN  /\ j < i
      /\ pj.gender = pi.gender
      /\ pj.suffix /\ pi.suffix
      /\ Len(pj.rx) <= Len(pi.rx)
      /\ \A n \in 1..Len(pj.rx) :
           pi.rx[Len(pi.rx) - Len(pj.rx) + n].cs \subseteq pj.rx[n].cs

\* a row whose templates use a placeholder its rule does not capture would
\* read what an earlier match left in this.replacements: no such row is ever
\* the first match
NoStalePlaceholder ==
  \A i \in 1..Len(patterns) :
    (\E d \in placeholders(patterns[i]) : d >= groups(patterns[i])) =>
      \E j \in 1..(i - 1) : shadows(j, i)

\* C14: a call of inflect is self-contained: for every text and animate value
\* the result on an instance is the same whatever calls were made on it
\* before, that is, it equals the result on a freshly constructed instance.
C14_SelfContained ==
  Returned => (result = freshInflect(text, animate) /\ NoStalePlaceholder)

\* a second call that starts with captures of the first call in
\* this.replacements and matches a rule with fewer groups: a stale slot is
\* there while its templates are substituted
C14_Witness ==
  /\ Returned
  /\ calls = 2
  /\ \E i \in 1..Len(log) :
       /\ log[i].pattern # 0
       /\ groups(patterns[log[i].pattern]) < Len(log[i].replacements)
       /\ placeholders(patterns[log[i].pattern]) # {}

\* what the case page tells about the case: the kinds and ids of its persons
\* and attorneys
caseData ==
  UNION {{page[i].cls, page[i].pId, page[i].attorney} : i \in 1..Len(page)} \ {""}

\* the values a request carries in its URL
carried(r) == {r.query[i] : i \in 1..Len(r.query)}

\* C15: processing is local: every network request of the extension that
\* leaves the intranet host carries no data of the case.
C15_NoCaseDataLeaves ==
  \A r \in requests : r.host # IntranetHost => carried(r) \cap caseData = {}

\* the update check went to the remote host, the person details were fetched
\* from the intranet host with the ids of the case, and the caption was copied
C15_Witness ==
  /\ checkForUpdateRequest \in requests
  /\ \E r \in requests : r.host = IntranetHost /\ carried(r) \cap caseData # {}
  /\ \E i \in 1..Len(handlers) :
       handlers[i].pc = "done" /\ handlers[i].responses = <<[success |-> TRUE]>>
  /\ clipboard # "empty"

\* no placeholder digit in a string
noDigit(s) == \A i \in 1..Len(s) : s[i] \notin {"0", "1"}

\* C16: in every form 2..14 of a word, for animate = false and animate = true,
\* every placeholder of the chosen template alternative is replaced by the
\* captured text: no form contains a literal placeholder digit (0 or 1) that
\* was not part of the word.
C16_NoPlaceholderLeft ==
  \A i \in 1..Len(log) : \A k \in 2..NumForms :
    noDigit(log[i].word) => noDigit(log[i].pushed[1][k].val)

\* the gender tag of row p is compatible with the gender g established so
\* far (none established: null, or the empty tag of the plural-only rules)
compatible(g, p) == g \in {null, ""} \/ p.gender = g

\* row j could take the i-th processed word: its tag is compatible and its
\* rule matches the base word (the word or its exception stem)
couldTake(j, i) ==
  compatible(log[i].forced, patterns[j]) /\ match(patterns[j], log[i].base) # -1

\* C17: the pattern used for a word is the first one in table order whose
\* gender tag is compatible with the gender established so far and whose rule
\* matches the word (or its exception stem); the forms of the word come from
\* that row alone, whatever later rows would match, also a longer suffix.
C17_FirstPatternWins ==
  \A i \in 1..Len(log) :
    IF log[i].pattern = 0
    THEN \A j \in 1..Len(patterns) : ~couldTake(j, i)
    ELSE /\ couldTake(log[i].pattern, i)
         /\ \A j \in 1..(log[i].pattern - 1) : ~couldTake(j, i)
         /\ \A k \in 2..NumForms :
              (log[i].exception = 0 \/ k # 4) =>
                log[i].pushed[1][k].val =
                  builtFrom(i, alternative(substitute(patterns[log[i].pattern].forms[k],
                                                      log[i].replacements, 1), animate))

\* a word for which a later row with a compatible tag matches a longer suffix
\* than the row used
C17_Witness ==
  /\ Returned
  /\ \E i \in 1..Len(log) :
       /\ log[i].pattern # 0
       /\ \E j \in (log[i].pattern + 1)..Len(patterns) :
            /\ couldTake(j, i)
            /\ patterns[j].suffix /\ patterns[log[i].pattern].suffix
            /\ Len(patterns[j].rx) > Len(patterns[log[i].pattern].rx)

\* C18: for a word found in the exception table the exception changes only
\* the stem used for matching and for the prefix, and pins form 4 to the third
\* element of the exception (written as the word is, with a capital or not);
\* every other form 2..14 is the prefix of the stem plus the resolved template
\* of the pattern that matched the stem.
C18_ExceptionFrame ==
  \A i \in 1..Len(log) :
    (log[i].exception # 0 /\ log[i].pattern # 0) =>
      /\ log[i].base = exceptions[log[i].exception][2]
      /\ log[i].pushed[1][4].val =
           (IF isUpper(log[i].word) THEN capitalize(exceptions[log[i].exception][3])
            ELSE exceptions[log[i].exception][3])
      /\ \A k \in (2..NumForms) \ {4} :
           log[i].pushed[1][k].val =
             builtFrom(i, alternative(substitute(patterns[log[i].pattern].forms[k],
                                                 log[i].replacements, 1), animate))

\* the gender local to the call when the i-th word is taken up
genderBefore(i) == IF i = 1 THEN null ELSE log[i - 1].gender

\* what the i-th word is looked up as in the force lexicons
lookedUp(i) == toLowerCase(breakAccents(log[i].word))

\* the lexicons that list w
listing(w) ==
  {x \in {"m", "f", "s"} :
     includes(IF x = "m" THEN forceM ELSE IF x = "f" THEN forceF ELSE forceS, w)}

\* masculine before feminine before neuter
firstOf(xs) == IF "m" \in xs THEN "m" ELSE IF "f" \in xs THEN "f" ELSE "s"

\* C19: when no gender is established yet, a word found in a force lexicon
\* pins the gender, masculine before feminine before neuter when several
\* lexicons list it, and that word and every word processed after it are
\* matched only against patterns of the pinned gender.
C19_ForcePins ==
  \A i \in 1..Len(log) :
    (genderBefore(i) = null /\ listing(lookedUp(i)) # {}) =>
      /\ log[i].forced = firstOf(listing(lookedUp(i)))
      /\ \A j \in i..Len(log) :
           /\ log[j].gender = firstOf(listing(lookedUp(i)))
           /\ log[j].pattern # 0 =>
                patterns[log[j].pattern].gender = firstOf(listing(lookedUp(i)))

\* a word of two lexicons is processed first and pinned masculine, and the
\* word to its left is declined by a masculine row, not the one it takes alone
C19_Witness ==
  /\ Returned
  /\ Len(log) = 2
  /\ log[1].word = W_dest
  /\ listing(lookedUp(1)) = {"m", "f"}
  /\ log[1].forced = "m"
  /\ log[1].pattern # 0
  /\ listing(lookedUp(2)) = {}
  /\ log[2].pattern # 0
  /\ patterns[log[2].pattern].gender = "m"
  /\ log[2].pattern # firstMatch(null, log[2].base)

\* C20: the force lexicons are consulted for a word only if no word processed
\* before it (to its right) in the same call has assigned a gender: a word
\* listed in a force lexicon never changes a gender a rightward word assigned.
C20_ForceOnlyFirst ==
  \A i \in 1..Len(log) :
    genderBefore(i) # null => log[i].forced = genderBefore(i)

\* a word of forceM stands to the left of a word that was declined feminine:
\* the gender stays feminine
C20_Witness ==
  /\ Returned
  /\ Len(log) = 2
  /\ log[1].pattern # 0
  /\ genderBefore(2) = "f"
  /\ listing(lookedUp(2)) = {"m"}
  /\ log[2].forced = "f"
  /\ log[2].gender = "f"

\* the other texts of the vocabulary written with the same letters as t,
\* whatever their case
caseVariants(t) == {v \in Vocabulary : v # t /\ toLowerCase(v) = toLowerCase(t)}

\* r and l are iterations that pinned the same gender and took the same pattern
sameDeclension(r, l) == r.forced = l.forced /\ r.pattern = l.pattern

\* the forms a and b are the same up to the case of their letters
sameLetters(a, b) ==
  \A k \in 1..NumForms : toLowerCase(a[k]) = toLowerCase(b[k])

\* C21: the lookup in the force lexicons does not depend on the case of the
\* letters: a one-word text and the same word written in another case are
\* pinned to the same gender, take the same pattern, and their fourteen forms
\* are the same up to the case of the letters.
C21_ForceIgnoresCase ==
  (Returned /\ Len(log) = 1) =>
    \A v \in caseVariants(text) :
      /\ sameDeclension(inflectWord(v, null, <<>>, animate), log[1])
      /\ sameLetters(freshInflect(v, animate), result)

\* C22: the capture buffer is scratch state of one call: it is empty when a
\* call of inflect starts, whatever the earlier calls did, and once a call
\* has returned nothing it captured is still stored.
C22_ScratchPerCall ==
  /\ (pc = "loop" /\ log = <<>>) => replacements = <<>>
  /\ pc = "idle" => replacements = <<>>

\* the fields of the instance that hold the static data of the engine
tables == {"patterns", "exceptions", "forceM", "forceF", "forceS"}

wordCount == Len(split(text))

\* C24: a call of inflect terminates (it returns or it raises), and the calls
\* of match it makes are at most the number of words of the text times the
\* number of rows of the pattern table: each word goes through the table at
\* most once and stops at the first row that matches.
C24_TerminatesWithinBound ==
  /\ [](attempts <= wordCount * Len(patterns))
  /\ [](\A i \in 1..Len(log) : log[i].matchCalls <= Len(patterns))
  /\ (pc = "loop") ~> (pc \in {"done", "threw"})

\* a call returned after the loop went through the whole table for a word:
\* the bound is reached
C24_Witness ==
  /\ Returned
  /\ attempts = wordCount * Len(patterns)

\* the rightmost word of the text of the call
lastWord == split(text)[Len(split(text))]

\* s ends with t
endsWith(s, t) ==
  Len(s) >= Len(t) /\ SubSeq(s, Len(s) - Len(t) + 1, Len(s)) = t

\* every form of res ends with a space and the same form of alone
endsWithForms(res, alone) ==
  \A k \in 1..NumForms : endsWith(res[k], <<" ">> \o alone[k])

hasAttorney ==
  \E j \in 1..Len(page) : page[j].anchor = "ok" /\ page[j].attorney # ""

\* C26: the text of a request is formatted with the inflectText of its own
\* message: whatever messages arrive while the extraction waits for its
\* fetches, the value formatAttorneyText reads is the one the request came
\* with.
C26_OwnFlag ==
  hasAttorney =>
    \A i \in 1..Len(handlers) :
      handlers[i].used # "none" => handlers[i].used = handlers[i].flag

\* the most runs of the listener there can be: one for each message
MaxRuns == MaxMsgs

\* run i of the listener received its message
received(i) == i \in DOMAIN handlers /\ handlers[i].pc # "sent"

\* run i of the listener called sendResponse exactly once
answeredOnce(i) ==
  i \in DOMAIN handlers /\ handlers[i].pc = "done" /\ Len(handlers[i].responses) = 1

\* C27: every run of the listener on an extractInfo message calls
\* sendResponse exactly once: never twice, and in the end once, whether the
\* extraction fails, writeText resolves, writeText is rejected and the
\* fallback copies, or navigator.clipboard is absent.
C27_AnswersOnce ==
  /\ [](\A i \in DOMAIN handlers :
          /\ Len(handlers[i].responses) <= 1
          /\ handlers[i].pc = "done" <=> Len(handlers[i].responses) = 1)
  /\ \A i \in 1..MaxRuns : received(i) ~> answeredOnce(i)

\* a run that answered once on the longest path: the text was formatted,
\* writeText was rejected and execCommand raised in the fallback, whose catch
\* answered
C27_Witness ==
  \E i \in DOMAIN handlers :
    /\ answeredOnce(i)
    /\ clipboardApi
    /\ handlers[i].used # "none"
    /\ ~handlers[i].responses[1].success

\* run i of the listener answered success: true
answeredSuccess(i) ==
  \E j \in 1..Len(handlers[i].responses) : handlers[i].responses[j].success

\* C28: success: true is answered only when the text was placed on the
\* clipboard: as long as no copy was made on the page, by writeText or by
\* execCommand, no run has answered success, also when execCommand returned
\* false without raising.
C28_SuccessMeansCopied ==
  clipboard = "empty" => \A i \in 1..Len(handlers) : ~answeredSuccess(i)

\* component i of a version, a missing component counted as 0
component(parts, i) == IF i <= Len(parts) THEN parts[i] ELSE 0

\* the version with the parts a is strictly greater than the one with the
\* parts b: at the first position where they differ, a has the greater number
greater(a, b) ==
  \E i \in 1..(Len(a) + Len(b)) :
    /\ component(a, i) > component(b, i)
    /\ \A j \in 1..(i - 1) : component(a, j) = component(b, j)

\* C29: the update check reports a new version exactly when the latest
\* version is strictly greater than the current one, compared component by
\* component as numbers with a missing component counted as 0; it does not
\* for equal versions, and never for a pair of versions and for the swapped
\* pair too, whatever the numbers of components.
C29_NewerExactly ==
  [][\A current, latest \in Versions :
       UpdateFetched(current, latest) =>
         /\ update' = "available" <=>
              greater(versionParts(latest), versionParts(current))
         /\ update' = "available" => ~isNewerVersion(latest, current)
         /\ current = latest => update' = "current"]_vars

\* the check ran and found a newer version
C29_Witness == popup = "open" /\ update = "available"

====
